---- MODULE Spec2Model ----
(***************************************************************************)
(* Model of the QFD scoring and classification engine                      *)
(* (utils/qfdCalculations.ts, kept here as src/unnamed/part_001), of the   *)
(* data it is applied to (types/qfd.ts), of the local store that holds     *)
(* that data (hooks/useQFDData.ts) and of the competitor columns of the    *)
(* CustomerRequirements component.                                         *)
(*                                                                         *)
(* JavaScript numbers are IEEE-754 doubles.  Scores are small integers and *)
(* are kept as TLA+ integers; every value the code obtains by a division   *)
(* or by a multiplication with 0.3 is a double and is modelled as the      *)
(* dyadic rational it denotes, with the code's round-to-nearest-even       *)
(* after every operation.                                                  *)
(***************************************************************************)
EXTENDS Integers, Sequences, FiniteSets, TLC

(***************************************************************************)
(* Natural numbers of arbitrary size: little-endian sequences of limbs in  *)
(* base 2^14, without leading zero limbs (zero is the empty sequence).     *)
(***************************************************************************)
LimbBits == 14

Base == 16384

Pow2Limb == [k \in 0..14 |-> CASE k = 0 -> 1 [] k = 1 -> 2 [] k = 2 -> 4 [] k = 3 -> 8
                               [] k = 4 -> 16 [] k = 5 -> 32 [] k = 6 -> 64 [] k = 7 -> 128
                               [] k = 8 -> 256 [] k = 9 -> 512 [] k = 10 -> 1024
                               [] k = 11 -> 2048 [] k = 12 -> 4096 [] k = 13 -> 8192
                               [] OTHER -> 16384]

RECURSIVE BigNorm(_)
BigNorm(a) ==
    IF a = <<>> THEN <<>>
    ELSE IF a[Len(a)] = 0 THEN BigNorm(SubSeq(a, 1, Len(a) - 1)) ELSE a

RECURSIVE BigFromInt(_)
BigFromInt(n) ==
    IF n = 0 THEN <<>> ELSE <<n % Base>> \o BigFromInt(n \div Base)

RECURSIVE BigAddC(_, _, _)
BigAddC(a, b, carry) ==
    IF a = <<>> /\ b = <<>>
    THEN IF carry = 0 THEN <<>> ELSE <<carry>>
    ELSE LET x == IF a = <<>> THEN 0 ELSE Head(a)
             y == IF b = <<>> THEN 0 ELSE Head(b)
             s == x + y + carry
         IN  <<s % Base>> \o BigAddC(IF a = <<>> THEN <<>> ELSE Tail(a),
                                     IF b = <<>> THEN <<>> ELSE Tail(b),
                                     s \div Base)

BigAdd(a, b) == BigAddC(a, b, 0)

RECURSIVE BigMulSmallC(_, _, _)
BigMulSmallC(a, k, carry) ==
    IF a = <<>>
    THEN BigFromInt(carry)
    ELSE LET s == Head(a) * k + carry
         IN  <<s % Base>> \o BigMulSmallC(Tail(a), k, s \div Base)

\* a * k for 0 <= k <= 2^16
BigMulSmall(a, k) == BigNorm(BigMulSmallC(a, k, 0))

ZeroLimbs(n) == [i \in 1..n |-> 0]

\* a * Base^n
BigShiftLimbs(a, n) == IF a = <<>> THEN <<>> ELSE ZeroLimbs(n) \o a

RECURSIVE BigMul(_, _)
BigMul(a, b) ==
    IF b = <<>> THEN <<>>
    ELSE BigAdd(BigMulSmall(a, Head(b)), BigShiftLimbs(BigMul(a, Tail(b)), 1))

\* a * 2^k
BigShl(a, k) == BigShiftLimbs(BigMulSmall(a, Pow2Limb[k % LimbBits]), k \div LimbBits)

RECURSIVE BigDivSmallR(_, _, _)
\* quotient limbs (little-endian) of (rem * Base^Len(a) + a) by d, for 0 < d <= 2^16
BigDivSmallR(a, d, rem) ==
    IF a = <<>> THEN <<>>
    ELSE LET cur == rem * Base + a[Len(a)]
         IN  BigDivSmallR(SubSeq(a, 1, Len(a) - 1), d, cur % d) \o <<cur \div d>>

BigDivSmall(a, d) == BigNorm(BigDivSmallR(a, d, 0))

RECURSIVE BigModSmallR(_, _, _)
BigModSmallR(a, d, rem) ==
    IF a = <<>> THEN rem
    ELSE BigModSmallR(SubSeq(a, 1, Len(a) - 1), d, (rem * Base + a[Len(a)]) % d)

BigModSmall(a, d) == BigModSmallR(a, d, 0)

\* floor(a / 2^k)
BigShr(a, k) ==
    LET n == k \div LimbBits
        dropped == IF n >= Len(a) THEN <<>> ELSE SubSeq(a, n + 1, Len(a))
    IN  BigDivSmall(dropped, Pow2Limb[k % LimbBits])

RECURSIVE SmallBitLen(_)
SmallBitLen(n) == IF n = 0 THEN 0 ELSE 1 + SmallBitLen(n \div 2)

BigBitLen(a) == IF a = <<>> THEN 0 ELSE LimbBits * (Len(a) - 1) + SmallBitLen(a[Len(a)])

BigIsOdd(a) == a # <<>> /\ Head(a) % 2 = 1

RECURSIVE BigCmp(_, _)
\* -1, 0, 1 as a < b, a = b, a > b
BigCmp(a, b) ==
    IF Len(a) # Len(b) THEN (IF Len(a) < Len(b) THEN -1 ELSE 1)
    ELSE IF a = <<>> THEN 0
    ELSE IF a[Len(a)] # b[Len(b)] THEN (IF a[Len(a)] < b[Len(b)] THEN -1 ELSE 1)
    ELSE BigCmp(SubSeq(a, 1, Len(a) - 1), SubSeq(b, 1, Len(b) - 1))

(***************************************************************************)
(* Non-negative dyadic rationals m * 2^e in canonical form (m odd, or      *)
(* m = 0 and e = 0), so that equal numbers are equal records.  A finite    *)
(* non-negative double is such a number with m < 2^53; NaN and Infinity   *)
(* are the two special values a division by zero produces.                 *)
(***************************************************************************)
MantissaBits == 53

DZero == [k |-> "finite", m |-> <<>>, e |-> 0]

NaN == [k |-> "NaN", m |-> <<>>, e |-> 0]

Infinity == [k |-> "Infinity", m |-> <<>>, e |-> 0]

RECURSIVE SmallTrailingZeros(_)
SmallTrailingZeros(n) == IF n % 2 = 1 THEN 0 ELSE 1 + SmallTrailingZeros(n \div 2)

RECURSIVE DCanon(_, _)
DCanon(m, e) ==
    IF m = <<>> THEN DZero
    ELSE IF Head(m) = 0 THEN DCanon(Tail(m), e + LimbBits)
    ELSE LET z == SmallTrailingZeros(Head(m))
         IN  [k |-> "finite", m |-> BigShr(m, z), e |-> e + z]

IsFinite(x) == x.k = "finite"

\* Round m * 2^e to the nearest double, ties to even.
FRound(m, e) ==
    LET L == BigBitLen(m)
    IN  IF L <= MantissaBits THEN DCanon(m, e)
        ELSE LET sh == L - MantissaBits
                 m54 == BigShr(m, sh - 1)
                 q == BigShr(m54, 1)
                 roundBit == BigIsOdd(m54)
                 sticky == BigShl(m54, sh - 1) # m
                 up == roundBit /\ (sticky \/ BigIsOdd(q))
             IN  DCanon(IF up THEN BigAdd(q, <<1>>) ELSE q, e + sh)

IntToD(n) == DCanon(BigFromInt(n), 0)

\* The exact sum of two dyadic rationals.
DAddExact(x, y) ==
    LET e0 == IF x.e < y.e THEN x.e ELSE y.e
    IN  DCanon(BigAdd(BigShl(x.m, x.e - e0), BigShl(y.m, y.e - e0)), e0)

\* -1, 0, 1 as x < y, x = y, x > y
DCmp(x, y) ==
    IF x = Infinity \/ y = Infinity
    THEN (IF x = y THEN 0 ELSE IF x = Infinity THEN 1 ELSE -1)
    ELSE
    LET e0 == IF x.e < y.e THEN x.e ELSE y.e
    IN  BigCmp(BigShl(x.m, x.e - e0), BigShl(y.m, y.e - e0))

\* x > y and x <= y as JavaScript evaluates them: false when an operand is NaN
DGt(x, y) == x # NaN /\ y # NaN /\ DCmp(x, y) = 1

DLe(x, y) == x # NaN /\ y # NaN /\ DCmp(x, y) # 1

\* x * k exactly, k a small natural
DMulInt(x, k) == DCanon(BigMulSmall(x.m, k), x.e)

\* the double a + b
FAdd(x, y) ==
    IF x = NaN \/ y = NaN THEN NaN
    ELSE IF x = Infinity \/ y = Infinity THEN Infinity
    ELSE LET s == DAddExact(x, y) IN FRound(s.m, s.e)

\* the double a * b
FMul(x, y) ==
    IF x = NaN \/ y = NaN THEN NaN
    ELSE IF x = Infinity \/ y = Infinity
         THEN (IF x = DZero \/ y = DZero THEN NaN ELSE Infinity)
    ELSE FRound(BigMul(x.m, y.m), x.e + y.e)

DivGuardBits == 84

\* the double s / t for integers 0 <= s, 0 <= t <= 2^16
FDivInt(s, t) ==
    IF t = 0 THEN (IF s = 0 THEN NaN ELSE Infinity)
    ELSE LET num == BigShl(BigFromInt(s), DivGuardBits)
             q == BigDivSmall(num, t)
             inexact == BigModSmall(num, t) # 0
             q2 == BigAdd(BigMulSmall(q, 2), IF inexact THEN <<1>> ELSE <<>>)
         IN  FRound(q2, 0 - (DivGuardBits + 1))

(***************************************************************************)
(* types/qfd.ts: the enumerations.                                          *)
(***************************************************************************)
NONE == 0

WEAK == 1

MEDIUM == 3

STRONG == 9

POSITIVE == 1

STRONG_POSITIVE == 2

NEGATIVE == 0 - 1

STRONG_NEGATIVE == 0 - 2

RelationshipStrength == {NONE, WEAK, MEDIUM, STRONG}

CorrelationType == {NONE, POSITIVE, STRONG_POSITIVE, NEGATIVE, STRONG_NEGATIVE}

(***************************************************************************)
(* Array helpers: find returns the first match, here as its 1-based index  *)
(* (0 when there is none, where JavaScript gives undefined).               *)
(***************************************************************************)
FindIndex(seq, Test(_)) ==
    IF \E i \in 1..Len(seq) : Test(seq[i])
    THEN CHOOSE i \in 1..Len(seq) : Test(seq[i]) /\ \A j \in 1..(i - 1) : ~Test(seq[j])
    ELSE 0

\* Math.max over a non-empty finite set of integers
MathMax(S) == CHOOSE x \in S : \A y \in S : y <= x

(***************************************************************************)
(* calculateTechnicalPriorities                                             *)
(***************************************************************************)
\* a find callback that forgets to compare the technical requirement
RelationshipMatches_AnyTech(r, custReq, techReq) ==
    r.customerReqId = custReq.id

\* the callback of find at part_001:6-8
RelationshipMatches(r, custReq, techReq) ==
    r.customerReqId = custReq.id /\ r.technicalReqId = techReq.id

\* a reduce callback that counts a missing relationship as -1
ScoreStep_Penalty(sum, custReq, techReq, relationships) ==
    LET Test(r) == RelationshipMatches(r, custReq, techReq)
        idx == FindIndex(relationships, Test)
        relationshipValue == IF idx # 0 THEN relationships[idx].strength ELSE 0 - 1
    IN  sum + (custReq.importance * relationshipValue)

\* the body of the reduce callback at part_001:5-11
ScoreStep(sum, custReq, techReq, relationships) ==
    LET Test(r) == RelationshipMatches(r, custReq, techReq)
        idx == FindIndex(relationships, Test)
        relationshipValue == IF idx # 0 THEN relationships[idx].strength ELSE NONE
    IN  sum + (custReq.importance * relationshipValue)

RECURSIVE ScoreReduce(_, _, _, _)
ScoreReduce(custReqs, sum, techReq, relationships) ==
    IF custReqs = <<>> THEN sum
    ELSE ScoreReduce(Tail(custReqs), ScoreStep(sum, Head(custReqs), techReq, relationships),
                     techReq, relationships)

calculateTechnicalPriorities(d) ==
    [i \in 1..Len(d.technicalRequirements) |->
        LET techReq == d.technicalRequirements[i]
        IN  [id |-> techReq.id,
             description |-> techReq.description,
             score |-> ScoreReduce(d.customerRequirements, 0, techReq, d.relationships),
             relativeWeight |-> DZero]]

(***************************************************************************)
(* normalizeWeights                                                         *)
(***************************************************************************)
RECURSIVE TotalScore(_)
TotalScore(ps) == IF ps = <<>> THEN 0 ELSE TotalScore(SubSeq(ps, 1, Len(ps) - 1)) + ps[Len(ps)].score

\* normalizeWeights dividing by the largest score instead of the total
normalizeWeights_ByMax(ps) ==
    LET maxScore == IF ps = <<>> THEN 0 ELSE CHOOSE x \in {ps[i].score : i \in 1..Len(ps)} :
                                                  \A i \in 1..Len(ps) : ps[i].score <= x
    IN  IF maxScore = 0 THEN ps
        ELSE [i \in 1..Len(ps) |->
                [ps[i] EXCEPT !.relativeWeight = FMul(FDivInt(ps[i].score, maxScore), IntToD(100))]]

\* normalizeWeights without the guard of part_001:188
normalizeWeights_Unguarded(ps) ==
    LET totalScore == TotalScore(ps)
    IN  [i \in 1..Len(ps) |->
            [ps[i] EXCEPT !.relativeWeight = FMul(FDivInt(ps[i].score, totalScore), IntToD(100))]]

\* normalizeWeights yielding fractions of 1 instead of percentages
normalizeWeights_Fraction(ps) ==
    LET totalScore == TotalScore(ps)
    IN  IF totalScore = 0 THEN ps
        ELSE [i \in 1..Len(ps) |->
                [ps[i] EXCEPT !.relativeWeight = FDivInt(ps[i].score, totalScore)]]

normalizeWeights(ps) ==
    LET totalScore == TotalScore(ps)
    IN  IF totalScore = 0 THEN ps
        ELSE [i \in 1..Len(ps) |->
                [ps[i] EXCEPT !.relativeWeight = FMul(FDivInt(ps[i].score, totalScore), IntToD(100))]]

(***************************************************************************)
(* The classifier: getImplementationChallenge, getStrategicImportance       *)
(***************************************************************************)
\* the literal 0.3
Lit03 == FDivInt(3, 10)

\* getImplementationChallenge with inclusive thresholds (>= for >)
getImplementationChallenge_Inclusive(difficulty, priority) ==
    LET challengeScore == FAdd(IntToD(difficulty * 20), FMul(priority, Lit03))
    IN  IF DLe(IntToD(80), challengeScore) THEN "Critical"
        ELSE IF DLe(IntToD(60), challengeScore) THEN "High"
        ELSE IF DLe(IntToD(40), challengeScore) THEN "Medium"
        ELSE "Low"

\* getImplementationChallenge with the labels of its two upper bands exchanged
getImplementationChallenge_SwappedLabels(difficulty, priority) ==
    LET challengeScore == FAdd(IntToD(difficulty * 20), FMul(priority, Lit03))
    IN  IF DGt(challengeScore, IntToD(80)) THEN "High"
        ELSE IF DGt(challengeScore, IntToD(60)) THEN "Critical"
        ELSE IF DGt(challengeScore, IntToD(40)) THEN "Medium"
        ELSE "Low"

getImplementationChallenge(difficulty, priority) ==
    LET challengeScore == FAdd(IntToD(difficulty * 20), FMul(priority, Lit03))
    IN  IF DGt(challengeScore, IntToD(80)) THEN "Critical"
        ELSE IF DGt(challengeScore, IntToD(60)) THEN "High"
        ELSE IF DGt(challengeScore, IntToD(40)) THEN "Medium"
        ELSE "Low"

\* getStrategicImportance escalating only above difficulty 4 (> for >=)
getStrategicImportance_StrictDifficulty(priority, difficulty) ==
    IF DGt(priority, IntToD(70)) THEN (IF difficulty > 4 THEN "Critical" ELSE "High")
    ELSE IF DGt(priority, IntToD(40)) THEN (IF difficulty > 4 THEN "High" ELSE "Medium")
    ELSE IF DGt(priority, IntToD(20)) THEN "Medium"
    ELSE "Low"

getStrategicImportance(priority, difficulty) ==
    IF DGt(priority, IntToD(70)) THEN (IF difficulty >= 4 THEN "Critical" ELSE "High")
    ELSE IF DGt(priority, IntToD(40)) THEN (IF difficulty >= 4 THEN "High" ELSE "Medium")
    ELSE IF DGt(priority, IntToD(20)) THEN "Medium"
    ELSE "Low"

(***************************************************************************)
(* The correlation analyzer                                                 *)
(***************************************************************************)
RECURSIVE CountCorrelation(_, _)
\* the counter the forEach at part_001:90-105 increments for the value v
CountCorrelation(correlations, v) ==
    IF correlations = <<>> THEN 0
    ELSE (IF Head(correlations).correlation = v THEN 1 ELSE 0) + CountCorrelation(Tail(correlations), v)

getCorrelationImpact(correlations) ==
    LET positiveCount == CountCorrelation(correlations, POSITIVE)
        negativeCount == CountCorrelation(correlations, NEGATIVE)
        strongPositiveCount == CountCorrelation(correlations, STRONG_POSITIVE)
        strongNegativeCount == CountCorrelation(correlations, STRONG_NEGATIVE)
        totalCorrelations == Len(correlations)
        netPositive == (strongPositiveCount * 2 + positiveCount) - (strongNegativeCount * 2 + negativeCount)
        impact == IF totalCorrelations = 0 THEN "Isolated"
                  ELSE IF netPositive > 1 THEN "Synergistic"
                  ELSE IF netPositive < 0 - 1 THEN "Conflicted"
                  ELSE "Complex"
    IN  [totalCorrelations |-> totalCorrelations,
         positiveCount |-> positiveCount + strongPositiveCount,
         negativeCount |-> negativeCount + strongNegativeCount,
         netImpact |-> netPositive,
         impact |-> impact]

MsgCritical == "CRITICAL: High-priority, difficult target with conflicts. Consider phased approach or alternative solutions."

MsgOpportunity == "OPPORTUNITY: High-priority target with synergies. Bundle with correlated requirements for efficiency."

MsgFocus == "FOCUS: High-priority but challenging target. Allocate experienced resources and consider risk mitigation."

MsgPriority == "PRIORITY: Important target with manageable complexity. Good candidate for early implementation."

MsgSynergy == "SYNERGY: Consider implementing alongside correlated high-priority requirements."

MsgCaution == "CAUTION: Monitor trade-offs with other requirements during implementation."

MsgStandard == "STANDARD: Can be implemented independently with normal resource allocation."

\* getTargetRecommendation testing the OPPORTUNITY rule before the CRITICAL rule
getTargetRecommendation_OpportunityFirst(priority, difficulty, correlationImpact) ==
    LET isHighPriority == DGt(priority, IntToD(50))
        isHighDifficulty == difficulty >= 4
        hasPositiveCorrelations == correlationImpact.positiveCount > 0
        hasNegativeCorrelations == correlationImpact.negativeCount > 0
    IN  IF isHighPriority /\ hasPositiveCorrelations THEN MsgOpportunity
        ELSE IF isHighPriority /\ isHighDifficulty /\ hasNegativeCorrelations THEN MsgCritical
        ELSE IF isHighPriority /\ isHighDifficulty THEN MsgFocus
        ELSE IF isHighPriority THEN MsgPriority
        ELSE IF hasPositiveCorrelations THEN MsgSynergy
        ELSE IF hasNegativeCorrelations THEN MsgCaution
        ELSE MsgStandard

getTargetRecommendation(priority, difficulty, correlationImpact) ==
    LET isHighPriority == DGt(priority, IntToD(50))
        isHighDifficulty == difficulty >= 4
        hasPositiveCorrelations == correlationImpact.positiveCount > 0
        hasNegativeCorrelations == correlationImpact.negativeCount > 0
    IN  IF isHighPriority /\ isHighDifficulty /\ hasNegativeCorrelations THEN MsgCritical
        ELSE IF isHighPriority /\ hasPositiveCorrelations THEN MsgOpportunity
        ELSE IF isHighPriority /\ isHighDifficulty THEN MsgFocus
        ELSE IF isHighPriority THEN MsgPriority
        ELSE IF hasPositiveCorrelations THEN MsgSynergy
        ELSE IF hasNegativeCorrelations THEN MsgCaution
        ELSE MsgStandard

RECURSIVE CorrelationsOf_FirstOnly(_, _)
\* a filter that looks at the first position of a pair only
CorrelationsOf_FirstOnly(corrs, id) ==
    IF corrs = <<>> THEN <<>>
    ELSE (IF Head(corrs).techReq1Id = id THEN <<Head(corrs)>> ELSE <<>>)
         \o CorrelationsOf_FirstOnly(Tail(corrs), id)

RECURSIVE CorrelationsOf(_, _)
\* the filter at part_001:38-40: the records that reference id in either position
CorrelationsOf(corrs, id) ==
    IF corrs = <<>> THEN <<>>
    ELSE (IF Head(corrs).techReq1Id = id \/ Head(corrs).techReq2Id = id THEN <<Head(corrs)>> ELSE <<>>)
         \o CorrelationsOf(Tail(corrs), id)

Scores(ps) == {ps[i].score : i \in 1..Len(ps)}

\* the largest score without the floor of 1
calculateTargetImpact_Unfloored(d) ==
    LET priorities == calculateTechnicalPriorities(d)
        maxScore == MathMax(Scores(priorities))
    IN  [i \in 1..Len(d.technicalRequirements) |->
            LET techReq == d.technicalRequirements[i]
                HasId(p) == p.id = techReq.id
                pidx == FindIndex(priorities, HasId)
                priorityScore == IF pidx # 0 THEN priorities[pidx].score ELSE 0
                normalizedPriority == FMul(FDivInt(priorityScore, maxScore), IntToD(100))
                correlations == CorrelationsOf(d.technicalCorrelations, techReq.id)
                correlationImpact == getCorrelationImpact(correlations)
            IN  [id |-> techReq.id,
                 description |-> techReq.description,
                 target |-> techReq.target,
                 unit |-> techReq.unit,
                 difficulty |-> techReq.difficulty,
                 priorityScore |-> priorityScore,
                 normalizedPriority |-> normalizedPriority,
                 implementationChallenge |-> getImplementationChallenge(techReq.difficulty, normalizedPriority),
                 strategicImportance |-> getStrategicImportance(normalizedPriority, techReq.difficulty),
                 correlationImpact |-> correlationImpact,
                 recommendation |-> getTargetRecommendation(normalizedPriority, techReq.difficulty, correlationImpact)]]

\* a percentage of the sum of the scores instead of their maximum
calculateTargetImpact_ByTotal(d) ==
    LET priorities == calculateTechnicalPriorities(d)
        maxScore == MathMax({TotalScore(priorities), 1})
    IN  [i \in 1..Len(d.technicalRequirements) |->
            LET techReq == d.technicalRequirements[i]
                HasId(p) == p.id = techReq.id
                pidx == FindIndex(priorities, HasId)
                priorityScore == IF pidx # 0 THEN priorities[pidx].score ELSE 0
                normalizedPriority == FMul(FDivInt(priorityScore, maxScore), IntToD(100))
                correlations == CorrelationsOf(d.technicalCorrelations, techReq.id)
                correlationImpact == getCorrelationImpact(correlations)
            IN  [id |-> techReq.id,
                 description |-> techReq.description,
                 target |-> techReq.target,
                 unit |-> techReq.unit,
                 difficulty |-> techReq.difficulty,
                 priorityScore |-> priorityScore,
                 normalizedPriority |-> normalizedPriority,
                 implementationChallenge |-> getImplementationChallenge(techReq.difficulty, normalizedPriority),
                 strategicImportance |-> getStrategicImportance(normalizedPriority, techReq.difficulty),
                 correlationImpact |-> correlationImpact,
                 recommendation |-> getTargetRecommendation(normalizedPriority, techReq.difficulty, correlationImpact)]]

calculateTargetImpact(d) ==
    LET priorities == calculateTechnicalPriorities(d)
        maxScore == MathMax(Scores(priorities) \cup {1})
    IN  [i \in 1..Len(d.technicalRequirements) |->
            LET techReq == d.technicalRequirements[i]
                HasId(p) == p.id = techReq.id
                pidx == FindIndex(priorities, HasId)
                priorityScore == IF pidx # 0 THEN priorities[pidx].score ELSE 0
                normalizedPriority == FMul(FDivInt(priorityScore, maxScore), IntToD(100))
                correlations == CorrelationsOf(d.technicalCorrelations, techReq.id)
                correlationImpact == getCorrelationImpact(correlations)
            IN  [id |-> techReq.id,
                 description |-> techReq.description,
                 target |-> techReq.target,
                 unit |-> techReq.unit,
                 difficulty |-> techReq.difficulty,
                 priorityScore |-> priorityScore,
                 normalizedPriority |-> normalizedPriority,
                 implementationChallenge |-> getImplementationChallenge(techReq.difficulty, normalizedPriority),
                 strategicImportance |-> getStrategicImportance(normalizedPriority, techReq.difficulty),
                 correlationImpact |-> correlationImpact,
                 recommendation |-> getTargetRecommendation(normalizedPriority, techReq.difficulty, correlationImpact)]]

getCorrelationImpactDescription(correlation, score1, score2) ==
    CASE correlation = STRONG_POSITIVE ->
            "Strong synergy: Working on one requirement significantly helps the other. Combined impact is amplified."
      [] correlation = POSITIVE ->
            "Positive synergy: Improvements in one requirement help the other. Look for combined solutions."
      [] correlation = NEGATIVE ->
            "Trade-off exists: Improving one may compromise the other. Balance is needed."
      [] correlation = STRONG_NEGATIVE ->
            "Strong trade-off: Significant conflict between requirements. Careful optimization required."
      [] OTHER -> "No significant interaction between these requirements."

\* thresholds that are reached rather than crossed
getCorrelationRecommendation_Inclusive(correlation, score1, score2) ==
    LET totalScore == score1 + score2
    IN  CASE correlation = STRONG_POSITIVE ->
                (IF totalScore >= 50
                 THEN "HIGH PRIORITY: Focus on solutions that address both requirements simultaneously for maximum impact."
                 ELSE "Consider bundling these requirements in your development approach.")
          [] correlation = POSITIVE ->
                (IF totalScore >= 40
                 THEN "Look for integrated solutions that can improve both requirements together."
                 ELSE "Moderate synergy - consider combined approaches when possible.")
          [] correlation = NEGATIVE ->
                (IF totalScore >= 60
                 THEN "CRITICAL: High-priority requirements in conflict. Develop compromise solutions or phased approach."
                 ELSE "Monitor trade-offs carefully during implementation.")
          [] correlation = STRONG_NEGATIVE ->
                (IF totalScore >= 50
                 THEN "URGENT: Strong conflict between important requirements. Consider alternative approaches or accept trade-offs."
                 ELSE "Strong conflict exists - may need to prioritize one over the other.")
          [] OTHER -> "Requirements can be addressed independently."

getCorrelationRecommendation(correlation, score1, score2) ==
    LET totalScore == score1 + score2
    IN  CASE correlation = STRONG_POSITIVE ->
                (IF totalScore > 50
                 THEN "HIGH PRIORITY: Focus on solutions that address both requirements simultaneously for maximum impact."
                 ELSE "Consider bundling these requirements in your development approach.")
          [] correlation = POSITIVE ->
                (IF totalScore > 40
                 THEN "Look for integrated solutions that can improve both requirements together."
                 ELSE "Moderate synergy - consider combined approaches when possible.")
          [] correlation = NEGATIVE ->
                (IF totalScore > 60
                 THEN "CRITICAL: High-priority requirements in conflict. Develop compromise solutions or phased approach."
                 ELSE "Monitor trade-offs carefully during implementation.")
          [] correlation = STRONG_NEGATIVE ->
                (IF totalScore > 50
                 THEN "URGENT: Strong conflict between important requirements. Consider alternative approaches or accept trade-offs."
                 ELSE "Strong conflict exists - may need to prioritize one over the other.")
          [] OTHER -> "Requirements can be addressed independently."

RECURSIVE InsightsOf_StopAtMissing(_, _, _)
\* a loop that ends at the first record whose requirements are not both found
InsightsOf_StopAtMissing(corrs, techReqs, basePriorities) ==
    IF corrs = <<>> THEN <<>>
    ELSE LET corr == Head(corrs)
             Is1(r) == r.id = corr.techReq1Id
             Is2(r) == r.id = corr.techReq2Id
             r1 == FindIndex(techReqs, Is1)
             r2 == FindIndex(techReqs, Is2)
             p1 == FindIndex(basePriorities, Is1)
             p2 == FindIndex(basePriorities, Is2)
         IN  IF r1 # 0 /\ r2 # 0 /\ p1 # 0 /\ p2 # 0
             THEN <<[req1 |-> techReqs[r1].description,
                     req2 |-> techReqs[r2].description,
                     correlation |-> corr.correlation,
                     priority1Score |-> basePriorities[p1].score,
                     priority2Score |-> basePriorities[p2].score,
                     impact |-> getCorrelationImpactDescription(corr.correlation,
                                  basePriorities[p1].score, basePriorities[p2].score),
                     recommendation |-> getCorrelationRecommendation(corr.correlation,
                                  basePriorities[p1].score, basePriorities[p2].score)]>>
                  \o InsightsOf_StopAtMissing(Tail(corrs), techReqs, basePriorities)
             ELSE <<>>

RECURSIVE InsightsOf_Reversed(_, _, _)
\* insights put in front of the earlier ones instead of behind them
InsightsOf_Reversed(corrs, techReqs, basePriorities) ==
    IF corrs = <<>> THEN <<>>
    ELSE LET corr == Head(corrs)
             Is1(r) == r.id = corr.techReq1Id
             Is2(r) == r.id = corr.techReq2Id
             r1 == FindIndex(techReqs, Is1)
             r2 == FindIndex(techReqs, Is2)
             p1 == FindIndex(basePriorities, Is1)
             p2 == FindIndex(basePriorities, Is2)
             pushed == IF r1 # 0 /\ r2 # 0 /\ p1 # 0 /\ p2 # 0
                       THEN <<[req1 |-> techReqs[r1].description,
                               req2 |-> techReqs[r2].description,
                               correlation |-> corr.correlation,
                               priority1Score |-> basePriorities[p1].score,
                               priority2Score |-> basePriorities[p2].score,
                               impact |-> getCorrelationImpactDescription(corr.correlation,
                                            basePriorities[p1].score, basePriorities[p2].score),
                               recommendation |-> getCorrelationRecommendation(corr.correlation,
                                            basePriorities[p1].score, basePriorities[p2].score)]>>
                       ELSE <<>>
         IN  InsightsOf_Reversed(Tail(corrs), techReqs, basePriorities) \o pushed

RECURSIVE InsightsOf(_, _, _)
\* the forEach at part_001:163-180 over the correlation records corrs
InsightsOf(corrs, techReqs, basePriorities) ==
    IF corrs = <<>> THEN <<>>
    ELSE LET corr == Head(corrs)
             Is1(r) == r.id = corr.techReq1Id
             Is2(r) == r.id = corr.techReq2Id
             r1 == FindIndex(techReqs, Is1)
             r2 == FindIndex(techReqs, Is2)
             p1 == FindIndex(basePriorities, Is1)
             p2 == FindIndex(basePriorities, Is2)
             pushed == IF r1 # 0 /\ r2 # 0 /\ p1 # 0 /\ p2 # 0
                       THEN <<[req1 |-> techReqs[r1].description,
                               req2 |-> techReqs[r2].description,
                               correlation |-> corr.correlation,
                               priority1Score |-> basePriorities[p1].score,
                               priority2Score |-> basePriorities[p2].score,
                               impact |-> getCorrelationImpactDescription(corr.correlation,
                                            basePriorities[p1].score, basePriorities[p2].score),
                               recommendation |-> getCorrelationRecommendation(corr.correlation,
                                            basePriorities[p1].score, basePriorities[p2].score)]>>
                       ELSE <<>>
         IN  pushed \o InsightsOf(Tail(corrs), techReqs, basePriorities)

\* a bundle that carries the normalized list
calculateCorrelationImpact_Normalized(d) ==
    LET basePriorities == calculateTechnicalPriorities(d)
    IN  [priorities |-> normalizeWeights(basePriorities),
         correlationInsights |-> InsightsOf(d.technicalCorrelations, d.technicalRequirements, basePriorities)]

calculateCorrelationImpact(d) ==
    LET basePriorities == calculateTechnicalPriorities(d)
    IN  [priorities |-> basePriorities,
         correlationInsights |-> InsightsOf(d.technicalCorrelations, d.technicalRequirements, basePriorities)]

(***************************************************************************)
(* State.  data is the QFDData snapshot handed to the engine; the other    *)
(* variables hold what the engine returned for it.  args and result are    *)
(* the arguments and the return value of a call of one of the module's     *)
(* private functions, or of the last operation of the local store.         *)
(* localCompetitorNames and debouncedCompetitorNames are the state of the  *)
(* CustomerRequirements component (CustomerRequirements.tsx:24,27).        *)
(***************************************************************************)
VARIABLES pc, data, priorities, normalizedPriorities, correlationInsights, targetImpacts,
          args, result, localCompetitorNames, debouncedCompetitorNames,
          requestQueue, isProcessingQueue, rendered, loops, executed, passed, replaced,
          relationshipRows, error

\* the state of useSupabaseQFD that the model follows: the request queue and its flag
\* (useSupabaseQFD:22-23), the values the last render handed to the queue effect, the running
\* processQueue calls, the requests executed, passed to queueRequest and replaced while
\* waiting, the rows of the relationships table and the hook's error
hookVars == <<requestQueue, isProcessingQueue, rendered, loops, executed, passed, replaced,
              relationshipRows, error>>

vars == <<pc, data, priorities, normalizedPriorities, correlationInsights, targetImpacts,
          args, result, localCompetitorNames, debouncedCompetitorNames,
          requestQueue, isProcessingQueue, rendered, loops, executed, passed, replaced,
          relationshipRows, error>>

Unset == <<>>

\* the Supabase hook is not mounted
HookUnset ==
    /\ requestQueue = Unset
    /\ isProcessingQueue = Unset
    /\ rendered = Unset
    /\ loops = Unset
    /\ executed = Unset
    /\ passed = Unset
    /\ replaced = Unset
    /\ relationshipRows = Unset
    /\ error = Unset

HookUnchanged == UNCHANGED hookVars

EmptyData ==
    [customerRequirements |-> <<>>, technicalRequirements |-> <<>>, relationships |-> <<>>,
     technicalCorrelations |-> <<>>, competitorNames |-> <<"Competitor A", "Competitor B">>]

(***************************************************************************)
(* Bounded inputs.                                                          *)
(***************************************************************************)
CustIds == <<"cust1", "cust2">>

TechIds == <<"tech1", "tech2">>

CustDescriptions == <<"Easy to use interface", "Fast response time">>

TechDescriptions == <<"Response time", "UI complexity score">>

ImportanceRange == 1..5

DifficultyRange == 1..5

\* the longest relationship list of an input
MaxRel == 2

\* the longest correlation list of an input
MaxCorr == 2

\* the longest priority list handed to normalizeWeights on its own
MaxLen == 3

\* normalizeWeights on its own sees the scores 0..MaxRaw and the 40 and 60 of Scenario B
MaxRaw == 3

\* the classifier on its own sees the priorities score / maxScore * 100, maxScore <= MaxScore
MaxScore == 10

ListsUpTo(S, n) == UNION {[1..k -> S] : k \in 0..n}

\* as addCustomerRequirement creates it (useQFDData.ts:18-23), with a description and an importance
CustomerReq(i, imp) ==
    [id |-> CustIds[i], description |-> CustDescriptions[i], importance |-> imp,
     competitorRatings |-> <<3, 3>>]

\* as addTechnicalRequirement creates it (useQFDData.ts:48-55), with a description and a difficulty
TechReq(i, diff) ==
    [id |-> TechIds[i], description |-> TechDescriptions[i], unit |-> "", target |-> "",
     difficulty |-> diff, importance |-> 0]

CustomerLists(n) == {[i \in 1..n |-> CustomerReq(i, f[i])] : f \in [1..n -> ImportanceRange]}

TechLists(n) == {[i \in 1..n |-> TechReq(i, f[i])] : f \in [1..n -> DifficultyRange]}

\* relationship rows between the first nc customer and the first nt technical requirements
RelRecords(nc, nt) ==
    {[customerReqId |-> CustIds[c], technicalReqId |-> TechIds[t], strength |-> s] :
        c \in 1..nc, t \in 1..nt, s \in RelationshipStrength}

\* at most one row per (customer, technical) pair: UNIQUE(customer_req_id, technical_req_id)
UniqueRelationships(l) ==
    \A i, j \in 1..Len(l) :
        i < j => ~(l[i].customerReqId = l[j].customerReqId /\ l[i].technicalReqId = l[j].technicalReqId)

RelationshipLists(nc, nt) == {l \in ListsUpTo(RelRecords(nc, nt), MaxRel) : UniqueRelationships(l)}

\* correlation rows over the ids: CHECK (tech_req1_id != tech_req2_id), any of the five values
CorrRecords(ids) ==
    {r \in [techReq1Id : {ids[a] : a \in 1..Len(ids)},
            techReq2Id : {ids[a] : a \in 1..Len(ids)},
            correlation : CorrelationType] : r.techReq1Id # r.techReq2Id}

\* at most one row per ordered pair: UNIQUE(tech_req1_id, tech_req2_id)
UniqueCorrelations(l) ==
    \A i, j \in 1..Len(l) :
        i < j => ~(l[i].techReq1Id = l[j].techReq1Id /\ l[i].techReq2Id = l[j].techReq2Id)

CorrelationLists(ids) == {l \in ListsUpTo(CorrRecords(ids), MaxCorr) : UniqueCorrelations(l)}

\* the snapshot loadSampleData installs (useQFDData.ts:160-219)
SampleData ==
    [customerRequirements |->
        <<[id |-> "cust1", description |-> "Easy to use interface", importance |-> 5,
           competitorRatings |-> <<3, 4>>],
          [id |-> "cust2", description |-> "Fast response time", importance |-> 4,
           competitorRatings |-> <<4, 3>>],
          [id |-> "cust3", description |-> "Reliable operation", importance |-> 5,
           competitorRatings |-> <<3, 5>>]>>,
     technicalRequirements |->
        <<[id |-> "tech1", description |-> "Response time", unit |-> "ms", target |-> "<200",
           difficulty |-> 3, importance |-> 0],
          [id |-> "tech2", description |-> "UI complexity score", unit |-> "points", target |-> "<50",
           difficulty |-> 2, importance |-> 0],
          [id |-> "tech3", description |-> "System uptime", unit |-> "%", target |-> ">99.9",
           difficulty |-> 4, importance |-> 0]>>,
     relationships |->
        <<[customerReqId |-> "cust1", technicalReqId |-> "tech2", strength |-> STRONG],
          [customerReqId |-> "cust2", technicalReqId |-> "tech1", strength |-> STRONG],
          [customerReqId |-> "cust3", technicalReqId |-> "tech3", strength |-> STRONG],
          [customerReqId |-> "cust1", technicalReqId |-> "tech1", strength |-> MEDIUM]>>,
     technicalCorrelations |->
        <<[techReq1Id |-> "tech1", techReq2Id |-> "tech2", correlation |-> NEGATIVE],
          [techReq1Id |-> "tech1", techReq2Id |-> "tech3", correlation |-> POSITIVE],
          [techReq1Id |-> "tech2", techReq2Id |-> "tech3", correlation |-> STRONG_POSITIVE]>>,
     competitorNames |-> <<"Product A", "Product B">>]

SampleTechIds == <<"tech1", "tech2", "tech3">>

\* an input of the priority scorer: any importances, any relationship list, no correlations
ScorerInput(cs, nt, rs) ==
    [EmptyData EXCEPT !.customerRequirements = cs,
                      !.technicalRequirements = [i \in 1..nt |-> TechReq(i, 3)],
                      !.relationships = rs]

InitScorer ==
    /\ pc = "input"
    /\ \E nc \in 0..Len(CustIds), nt \in 0..Len(TechIds) :
         \E cs \in CustomerLists(nc), rs \in RelationshipLists(nc, nt) :
            data = ScorerInput(cs, nt, rs)
    /\ priorities = Unset
    /\ normalizedPriorities = Unset
    /\ correlationInsights = Unset
    /\ targetImpacts = Unset
    /\ localCompetitorNames = Unset
    /\ debouncedCompetitorNames = Unset
    /\ HookUnset
    /\ args = Unset
    /\ result = Unset

\* a call of calculateTechnicalPriorities(data)
CalculateTechnicalPriorities ==
    /\ pc = "input"
    /\ priorities' = calculateTechnicalPriorities(data)
    /\ pc' = "scored"
    /\ UNCHANGED <<data, normalizedPriorities, correlationInsights, targetImpacts, args, result>>
    /\ UNCHANGED <<localCompetitorNames, debouncedCompetitorNames>>
    /\ HookUnchanged

NextScorer == CalculateTechnicalPriorities

SpecScorer == InitScorer /\ [][NextScorer]_vars

(***************************************************************************)
(* normalizeWeights on its own: the priority lists are those                *)
(* calculateTechnicalPriorities returns (relativeWeight 0).                 *)
(***************************************************************************)
PriorityIds == <<"tech1", "tech2", "tech3", "tech4">>

PriorityDescriptions == <<"Response time", "UI complexity score", "System uptime", "Memory usage">>

RawScores == (0..MaxRaw) \cup {40, 60}

NormalizerInputs ==
    UNION {
        {[i \in 1..n |-> [id |-> PriorityIds[i], description |-> PriorityDescriptions[i],
                          score |-> f[i], relativeWeight |-> DZero]] :
            f \in [1..n -> RawScores]} :
        n \in 0..MaxLen}

InitNormalizer ==
    /\ pc = "scored"
    /\ priorities \in NormalizerInputs
    /\ data = Unset
    /\ normalizedPriorities = Unset
    /\ correlationInsights = Unset
    /\ targetImpacts = Unset
    /\ localCompetitorNames = Unset
    /\ debouncedCompetitorNames = Unset
    /\ HookUnset
    /\ args = Unset
    /\ result = Unset

\* a call of normalizeWeights(priorities)
NormalizeWeights ==
    /\ pc = "scored"
    /\ normalizedPriorities' = normalizeWeights(priorities)
    /\ pc' = "normalized"
    /\ UNCHANGED <<data, priorities, correlationInsights, targetImpacts, args, result>>
    /\ UNCHANGED <<localCompetitorNames, debouncedCompetitorNames>>
    /\ HookUnchanged

NextNormalizer == NormalizeWeights

SpecNormalizer == InitNormalizer /\ [][NextNormalizer]_vars

(***************************************************************************)
(* The classifier functions on their own: a difficulty and a normalized    *)
(* priority as calculateTargetImpact computes it, score / maxScore * 100.  *)
(***************************************************************************)
ClassifierPriorities ==
    UNION {{FMul(FDivInt(s, m), IntToD(100)) : s \in 0..m} : m \in 1..MaxScore}

InitClassifier ==
    /\ pc = "input"
    /\ args \in [difficulty : DifficultyRange, priority : ClassifierPriorities]
    /\ result = Unset
    /\ data = Unset
    /\ priorities = Unset
    /\ normalizedPriorities = Unset
    /\ correlationInsights = Unset
    /\ targetImpacts = Unset
    /\ localCompetitorNames = Unset
    /\ debouncedCompetitorNames = Unset
    /\ HookUnset

\* a call of getImplementationChallenge(difficulty, priority)
GetImplementationChallenge ==
    /\ pc = "input"
    /\ result' = getImplementationChallenge(args.difficulty, args.priority)
    /\ pc' = "challenge"
    /\ UNCHANGED <<data, priorities, normalizedPriorities, correlationInsights, targetImpacts, args>>
    /\ UNCHANGED <<localCompetitorNames, debouncedCompetitorNames>>
    /\ HookUnchanged

\* a call of getStrategicImportance(priority, difficulty)
GetStrategicImportance ==
    /\ pc = "input"
    /\ result' = getStrategicImportance(args.priority, args.difficulty)
    /\ pc' = "importance"
    /\ UNCHANGED <<data, priorities, normalizedPriorities, correlationInsights, targetImpacts, args>>
    /\ UNCHANGED <<localCompetitorNames, debouncedCompetitorNames>>
    /\ HookUnchanged

NextClassifier == GetImplementationChallenge \/ GetStrategicImportance

SpecClassifier == InitClassifier /\ [][NextClassifier]_vars

(***************************************************************************)
(* The analysis of one snapshot, as PriorityAnalysis.tsx:11-14 runs it on  *)
(* every render.  The snapshots are what loadProject can deliver: rows of  *)
(* the tables of part_000, so a correlation row between two loaded         *)
(* requirements may hold either order of the pair and the value 0.         *)
(***************************************************************************)
\* the relationship rows of one customer requirement: strengths[t] for technical requirement t
RelationshipRow(c, strengths) ==
    LET Row(t) == IF strengths[t] = NONE THEN <<>>
                  ELSE <<[customerReqId |-> CustIds[c], technicalReqId |-> TechIds[t],
                          strength |-> strengths[t]]>>
        RECURSIVE Rows(_)
        Rows(t) == IF t = 0 THEN <<>> ELSE Rows(t - 1) \o Row(t)
    IN  Rows(Len(strengths))

\* the snapshot of one customer requirement of importance 5 (as in the sample data), the
\* technical requirements ts with the relationship strengths st and the correlation rows cl
AnalyzerInput(ts, st, cl) ==
    [EmptyData EXCEPT !.customerRequirements = <<CustomerReq(1, 5)>>,
                      !.technicalRequirements = ts,
                      !.relationships = RelationshipRow(1, st),
                      !.technicalCorrelations = cl]

\* Either up to two technical requirements of any difficulty and relationship strength with
\* any correlation rows between them, or the requirements and relationships of the
\* sample data with any correlation rows between its three technical requirements.
InitAnalyzer ==
    /\ pc = "input"
    /\ \/ \E nt \in 0..Len(TechIds) :
            \E ts \in TechLists(nt), st \in [1..nt -> RelationshipStrength],
               cl \in CorrelationLists(SubSeq(TechIds, 1, nt)) :
                data = AnalyzerInput(ts, st, cl)
       \/ \E cl \in CorrelationLists(SampleTechIds) :
            data = [SampleData EXCEPT !.technicalCorrelations = cl]
    /\ priorities = Unset
    /\ normalizedPriorities = Unset
    /\ correlationInsights = Unset
    /\ targetImpacts = Unset
    /\ localCompetitorNames = Unset
    /\ debouncedCompetitorNames = Unset
    /\ HookUnset
    /\ args = Unset
    /\ result = Unset

\* one render of PriorityAnalysis
PriorityAnalysis ==
    /\ pc = "input"
    /\ LET bundle == calculateCorrelationImpact(data)
       IN  /\ priorities' = bundle.priorities
           /\ correlationInsights' = bundle.correlationInsights
           /\ normalizedPriorities' = normalizeWeights(bundle.priorities)
    /\ targetImpacts' = calculateTargetImpact(data)
    /\ pc' = "rendered"
    /\ UNCHANGED <<data, args, result>>
    /\ UNCHANGED <<localCompetitorNames, debouncedCompetitorNames>>
    /\ HookUnchanged

NextAnalyzer == PriorityAnalysis

SpecAnalyzer == InitAnalyzer /\ [][NextAnalyzer]_vars

(***************************************************************************)
(* Properties of the priority scorer.                                       *)
(***************************************************************************)
\* the relationship rows of data for the pair (cid, tid)
RowsOfPair(cid, tid) ==
    {k \in 1..Len(data.relationships) :
        data.relationships[k].customerReqId = cid /\ data.relationships[k].technicalReqId = tid}

\* strength(c, t): the strength of the pair's row, 0 without a row
StrengthOfPair(cid, tid) ==
    IF RowsOfPair(cid, tid) = {} THEN 0
    ELSE data.relationships[CHOOSE k \in RowsOfPair(cid, tid) : TRUE].strength

RECURSIVE WeightedSum(_, _)
\* the sum over the first n customer requirements c of importance(c) * strength(c, tid)
WeightedSum(n, tid) ==
    IF n = 0 THEN 0
    ELSE WeightedSum(n - 1, tid)
         + data.customerRequirements[n].importance * StrengthOfPair(data.customerRequirements[n].id, tid)

\* C1: calculateTechnicalPriorities gives every technical requirement t the score
\* sum over all customer requirements c of importance(c) * strength(c, t), where strength(c, t)
\* is the strength of the pair's relationship record and 0 when there is no record.
C1_ScoreIsWeightedSum ==
    pc = "scored" =>
        /\ Len(priorities) = Len(data.technicalRequirements)
        /\ \A i \in 1..Len(priorities) :
              priorities[i].score =
                  WeightedSum(Len(data.customerRequirements), data.technicalRequirements[i].id)

\* two customer requirements, one with and one without a record for a scored requirement
C1_Witness ==
    /\ pc = "scored"
    /\ Len(data.customerRequirements) = 2
    /\ \E i \in 1..Len(priorities) :
          /\ priorities[i].score > 0
          /\ \E c \in 1..2 : RowsOfPair(data.customerRequirements[c].id, priorities[i].id) = {}
          /\ \E c \in 1..2 : RowsOfPair(data.customerRequirements[c].id, priorities[i].id) # {}
          /\ \E k \in 1..Len(data.relationships) : data.relationships[k].technicalReqId # priorities[i].id

(***************************************************************************)
(* Properties of normalizeWeights.                                          *)
(***************************************************************************)
RECURSIVE SumOfScores(_)
SumOfScores(ps) == IF ps = <<>> THEN 0 ELSE Head(ps).score + SumOfScores(Tail(ps))

\* 2^(-k)
Pow2Neg(k) == [k |-> "finite", m |-> <<1>>, e |-> 0 - k]

\* |w - score / total * 100| <= 2^(-40), stated without a division:
\* |w * total - score * 100| <= total * 2^(-40)
IsPercentage(w, score, total) ==
    /\ IsFinite(w)
    /\ DLe(DMulInt(w, total), DAddExact(IntToD(score * 100), DMulInt(Pow2Neg(40), total)))
    /\ DLe(IntToD(score * 100), DAddExact(DMulInt(w, total), DMulInt(Pow2Neg(40), total)))

\* C2: when the scores sum to a total greater than 0, normalizeWeights returns a list of the
\* same length and order in which every entry keeps its id, description and score and has
\* relativeWeight = score / total * 100 (the double the expression evaluates to, which is the
\* percentage up to rounding; scores 60 and 40 give exactly 60 and 40), and the input list
\* is not modified.
C2_NormalizedWeights ==
    (pc = "normalized" /\ SumOfScores(priorities) > 0) =>
        /\ Len(normalizedPriorities) = Len(priorities)
        /\ \A i \in 1..Len(priorities) :
              /\ normalizedPriorities[i].id = priorities[i].id
              /\ normalizedPriorities[i].description = priorities[i].description
              /\ normalizedPriorities[i].score = priorities[i].score
              /\ normalizedPriorities[i].relativeWeight =
                    FMul(FDivInt(priorities[i].score, SumOfScores(priorities)), IntToD(100))
              /\ IsPercentage(normalizedPriorities[i].relativeWeight, priorities[i].score,
                              SumOfScores(priorities))
              /\ priorities[i].relativeWeight = DZero
        /\ (Len(priorities) = 2 /\ priorities[1].score = 60 /\ priorities[2].score = 40) =>
              /\ normalizedPriorities[1].relativeWeight = IntToD(60)
              /\ normalizedPriorities[2].relativeWeight = IntToD(40)

\* Scenario B: scores 60 and 40
C2_Witness ==
    /\ pc = "normalized"
    /\ Len(priorities) = 2
    /\ priorities[1].score = 60
    /\ priorities[2].score = 40
    /\ normalizedPriorities[1].relativeWeight = IntToD(60)

\* C3: when the scores sum to 0 (the empty list included), normalizeWeights divides nothing
\* (no weight is the NaN of 0 / 0), returns its input unchanged, and every relativeWeight of
\* the result is 0.
C3_ZeroTotalUnchanged ==
    (pc = "normalized" /\ SumOfScores(priorities) = 0) =>
        /\ normalizedPriorities = priorities
        /\ \A i \in 1..Len(normalizedPriorities) : normalizedPriorities[i].relativeWeight = DZero

\* Scenario E: several requirements, all with score 0
C3_Witness ==
    /\ pc = "normalized"
    /\ Len(priorities) >= 2
    /\ SumOfScores(priorities) = 0
    /\ normalizedPriorities = priorities

RECURSIVE SumOfWeights(_)
\* the exact sum of the relativeWeight values
SumOfWeights(ps) == IF ps = <<>> THEN DZero ELSE DAddExact(Head(ps).relativeWeight, SumOfWeights(Tail(ps)))

AllWeightsFinite(ps) == \A i \in 1..Len(ps) : IsFinite(ps[i].relativeWeight)

\* x * 10^9
TimesBillion(x) == DMulInt(DMulInt(DMulInt(x, 1000), 1000), 1000)

\* |x - 100| < 10^(-9)
NearHundred(x) ==
    /\ DGt(DAddExact(TimesBillion(x), IntToD(1)), TimesBillion(IntToD(100)))
    /\ DGt(DAddExact(TimesBillion(IntToD(100)), IntToD(1)), TimesBillion(x))

\* C4 as amended: for every non-empty priority list whose scores are non-negative and sum to
\* a total greater than 0, the relativeWeight values returned by normalizeWeights sum to 100
\* up to floating-point rounding: their sum differs from 100 by less than 10^(-9).
C4_WeightsSumNearHundred ==
    (pc = "normalized" /\ SumOfScores(priorities) > 0) =>
        /\ AllWeightsFinite(normalizedPriorities)
        /\ NearHundred(SumOfWeights(normalizedPriorities))

\* scores 1 and 2: the weights 33.33333333333333 and 66.66666666666666 sum to less than 100
C4_Witness ==
    /\ pc = "normalized"
    /\ Len(priorities) = 2
    /\ priorities[1].score = 1
    /\ priorities[2].score = 2
    /\ SumOfWeights(normalizedPriorities) # IntToD(100)
    /\ NearHundred(SumOfWeights(normalizedPriorities))

\* C4 as claimed: the relativeWeight values sum to exactly 100.
C4_WeightsSumExactlyHundred ==
    (pc = "normalized" /\ SumOfScores(priorities) > 0) =>
        SumOfWeights(normalizedPriorities) = IntToD(100)

(***************************************************************************)
(* Properties of the classifier.                                            *)
(***************************************************************************)
\* ten times the challenge score difficulty * 20 + priority * 0.3, computed exactly
TenTimesChallengeScore(difficulty, priority) ==
    DAddExact(IntToD(difficulty * 200), DMulInt(priority, 3))

\* C5: for every difficulty in 1..5 and normalizedPriority in 0..100 the Implementation
\* Challenge label is determined by challengeScore = difficulty * 20 + normalizedPriority * 0.3:
\* Critical when challengeScore > 80, otherwise High when > 60, otherwise Medium when > 40,
\* otherwise Low, all comparisons strict.
C5_ChallengeBands ==
    pc = "challenge" =>
        LET c10 == TenTimesChallengeScore(args.difficulty, args.priority)
        IN  /\ (result = "Critical") = DGt(c10, IntToD(800))
            /\ (result = "High") = (DGt(c10, IntToD(600)) /\ DLe(c10, IntToD(800)))
            /\ (result = "Medium") = (DGt(c10, IntToD(400)) /\ DLe(c10, IntToD(600)))
            /\ (result = "Low") = DLe(c10, IntToD(400))

\* difficulty 4 at priority 0: the challenge score is exactly 80 and the band is High
C5_Witness ==
    /\ pc = "challenge"
    /\ args.difficulty = 4
    /\ args.priority = DZero
    /\ result = "High"

\* C6: for every difficulty in 1..5 and normalizedPriority in 0..100 the Strategic Importance
\* label follows the table: priority > 70 gives Critical when difficulty >= 4 and High
\* otherwise; 40 < priority <= 70 gives High when difficulty >= 4 and Medium otherwise;
\* 20 < priority <= 40 gives Medium; priority <= 20 gives Low.
C6_ImportanceTable ==
    pc = "importance" =>
        LET p == args.priority
            d == args.difficulty
        IN  /\ (DGt(p, IntToD(70)) /\ d >= 4) => result = "Critical"
            /\ (DGt(p, IntToD(70)) /\ d < 4) => result = "High"
            /\ (DGt(p, IntToD(40)) /\ DLe(p, IntToD(70)) /\ d >= 4) => result = "High"
            /\ (DGt(p, IntToD(40)) /\ DLe(p, IntToD(70)) /\ d < 4) => result = "Medium"
            /\ (DGt(p, IntToD(20)) /\ DLe(p, IntToD(40))) => result = "Medium"
            /\ DLe(p, IntToD(20)) => result = "Low"

\* priority exactly 70 at difficulty 4: the middle band, escalated to High
C6_Witness ==
    /\ pc = "importance"
    /\ args.priority = IntToD(70)
    /\ args.difficulty = 4
    /\ result = "High"

Rank(label) == CASE label = "Low" -> 0 [] label = "Medium" -> 1 [] label = "High" -> 2
                 [] label = "Critical" -> 3

\* C7: with Low < Medium < High < Critical, for every fixed difficulty and every pair of
\* normalized priorities p <= q, the Implementation Challenge band for q is not lower than
\* the band for p, and the Strategic Importance band for q is not lower than the band for p.
C7_BandsMonotone ==
    /\ pc = "challenge" =>
          \A q \in ClassifierPriorities :
              DLe(args.priority, q) =>
                  Rank(getImplementationChallenge(args.difficulty, q)) >= Rank(result)
    /\ pc = "importance" =>
          \A q \in ClassifierPriorities :
              DLe(args.priority, q) =>
                  Rank(getStrategicImportance(q, args.difficulty)) >= Rank(result)

\* difficulty 3: Medium at priority 0, and a larger priority in the Critical band
C7_Witness ==
    /\ pc = "challenge"
    /\ args.difficulty = 3
    /\ args.priority = DZero
    /\ result = "Medium"
    /\ \E q \in ClassifierPriorities :
          DGt(q, args.priority) /\ getImplementationChallenge(args.difficulty, q) = "Critical"

(***************************************************************************)
(* Properties of the correlation analyzer.                                  *)
(***************************************************************************)
\* the correlation rows of d that reference id in either position
RowsReferencing(d, id) ==
    {k \in 1..Len(d.technicalCorrelations) :
        d.technicalCorrelations[k].techReq1Id = id \/ d.technicalCorrelations[k].techReq2Id = id}

\* how many of them have the value v
NumberWith(d, id, v) ==
    Cardinality({k \in RowsReferencing(d, id) : d.technicalCorrelations[k].correlation = v})

NetOf(d, id) ==
    (2 * NumberWith(d, id, STRONG_POSITIVE) + NumberWith(d, id, POSITIVE))
    - (2 * NumberWith(d, id, STRONG_NEGATIVE) + NumberWith(d, id, NEGATIVE))

RECURSIVE WithoutNoneRows(_)
WithoutNoneRows(corrs) ==
    IF corrs = <<>> THEN <<>>
    ELSE (IF Head(corrs).correlation = NONE THEN <<>> ELSE <<Head(corrs)>>) \o WithoutNoneRows(Tail(corrs))

\* the snapshot without its correlation rows of value None
WithoutNone(d) == [d EXCEPT !.technicalCorrelations = WithoutNoneRows(d.technicalCorrelations)]

\* C9: a pair without a correlation record is treated the same as a pair with a stored
\* record of correlation 0: removing the correlation records whose value is None (0) changes
\* neither any requirement's CorrelationImpactSummary (counts, netImpact, impact label), nor
\* its target recommendation, nor the list of correlation insights.
C9_NoneRowsChangeNothing ==
    pc = "rendered" =>
        LET impacts0 == calculateTargetImpact(WithoutNone(data))
        IN  /\ \A i \in 1..Len(targetImpacts) :
                  /\ targetImpacts[i].correlationImpact.positiveCount =
                        impacts0[i].correlationImpact.positiveCount
                  /\ targetImpacts[i].correlationImpact.negativeCount =
                        impacts0[i].correlationImpact.negativeCount
                  /\ targetImpacts[i].correlationImpact.netImpact =
                        impacts0[i].correlationImpact.netImpact
                  /\ targetImpacts[i].correlationImpact.impact = impacts0[i].correlationImpact.impact
                  /\ targetImpacts[i].recommendation = impacts0[i].recommendation
            /\ correlationInsights = calculateCorrelationImpact(WithoutNone(data)).correlationInsights

HighPriority(t) == DGt(t.normalizedPriority, IntToD(50))

HighDifficulty(t) == t.difficulty >= 4

HasPositive(t) == t.correlationImpact.positiveCount > 0

HasNegative(t) == t.correlationImpact.negativeCount > 0

\* C10: the target recommendation is chosen by the first matching rule of: (1) highPriority
\* and highDifficulty and hasNegative -> CRITICAL; (2) highPriority and hasPositive ->
\* OPPORTUNITY; (3) highPriority and highDifficulty -> FOCUS; (4) highPriority -> PRIORITY;
\* (5) hasPositive -> SYNERGY; (6) hasNegative -> CAUTION; (7) otherwise STANDARD, with
\* highPriority = normalizedPriority > 50, highDifficulty = difficulty >= 4,
\* hasPositive = positiveCount > 0, hasNegative = negativeCount > 0.
C10_RecommendationRules ==
    pc = "rendered" =>
        \A i \in 1..Len(targetImpacts) :
            LET t == targetImpacts[i]
                r1 == HighPriority(t) /\ HighDifficulty(t) /\ HasNegative(t)
                r2 == HighPriority(t) /\ HasPositive(t)
                r3 == HighPriority(t) /\ HighDifficulty(t)
                r4 == HighPriority(t)
                r5 == HasPositive(t)
                r6 == HasNegative(t)
            IN  /\ t.difficulty = data.technicalRequirements[i].difficulty
                /\ r1 => t.recommendation = MsgCritical
                /\ (~r1 /\ r2) => t.recommendation = MsgOpportunity
                /\ (~r1 /\ ~r2 /\ r3) => t.recommendation = MsgFocus
                /\ (~r1 /\ ~r2 /\ ~r3 /\ r4) => t.recommendation = MsgPriority
                /\ (~r1 /\ ~r2 /\ ~r3 /\ ~r4 /\ r5) => t.recommendation = MsgSynergy
                /\ (~r1 /\ ~r2 /\ ~r3 /\ ~r4 /\ ~r5 /\ r6) => t.recommendation = MsgCaution
                /\ (~r1 /\ ~r2 /\ ~r3 /\ ~r4 /\ ~r5 /\ ~r6) => t.recommendation = MsgStandard

\* a high-priority, difficult requirement with a positive and a negative correlation gets
\* CRITICAL (rule 1 before rule 2), next to a low-priority requirement that gets SYNERGY
C10_Witness ==
    /\ pc = "rendered"
    /\ \E i \in 1..Len(targetImpacts) :
          /\ HighPriority(targetImpacts[i]) /\ HighDifficulty(targetImpacts[i])
          /\ HasPositive(targetImpacts[i]) /\ HasNegative(targetImpacts[i])
          /\ targetImpacts[i].recommendation = MsgCritical
    /\ \E i \in 1..Len(targetImpacts) :
          /\ ~HighPriority(targetImpacts[i])
          /\ targetImpacts[i].recommendation = MsgSynergy

(***************************************************************************)
(* The insight of one correlated pair: two customer requirements of any    *)
(* importance, two technical requirements related to them with any         *)
(* strengths, and one correlation record between the two.                  *)
(***************************************************************************)
\* the relationship rows of the customer requirements 1..Len(st), st[c][t] being the strength
\* of customer requirement c and technical requirement t
RelationshipRows(st) ==
    LET RECURSIVE Rows(_)
        Rows(c) == IF c = 0 THEN <<>> ELSE Rows(c - 1) \o RelationshipRow(c, st[c])
    IN  Rows(Len(st))

InsightInput(cs, st, v) ==
    [EmptyData EXCEPT !.customerRequirements = cs,
                      !.technicalRequirements = <<TechReq(1, 3), TechReq(2, 3)>>,
                      !.relationships = RelationshipRows(st),
                      !.technicalCorrelations =
                          <<[techReq1Id |-> TechIds[1], techReq2Id |-> TechIds[2], correlation |-> v]>>]

InitInsight ==
    /\ pc = "input"
    /\ \E cs \in CustomerLists(2), st \in [1..2 -> [1..2 -> RelationshipStrength]], v \in CorrelationType :
            data = InsightInput(cs, st, v)
    /\ priorities = Unset
    /\ normalizedPriorities = Unset
    /\ correlationInsights = Unset
    /\ targetImpacts = Unset
    /\ localCompetitorNames = Unset
    /\ debouncedCompetitorNames = Unset
    /\ HookUnset
    /\ args = Unset
    /\ result = Unset

\* a call of calculateCorrelationImpact(data)
CalculateCorrelationImpact ==
    /\ pc = "input"
    /\ LET bundle == calculateCorrelationImpact(data)
       IN  /\ priorities' = bundle.priorities
           /\ correlationInsights' = bundle.correlationInsights
    /\ pc' = "insights"
    /\ UNCHANGED <<data, normalizedPriorities, targetImpacts, args, result>>
    /\ UNCHANGED <<localCompetitorNames, debouncedCompetitorNames>>
    /\ HookUnchanged

NextInsight == CalculateCorrelationImpact

SpecInsight == InitInsight /\ [][NextInsight]_vars

(***************************************************************************)
(* Properties of the correlation insights.                                  *)
(***************************************************************************)
\* the raw score of the technical requirement tid: the weighted sum over all customer requirements
RawScore(tid) == WeightedSum(Len(data.customerRequirements), tid)

\* the recommendation the thresholds 50, 40, 60 and 50 give for the value v and the sum
ThresholdRecommendation(v, sum) ==
    CASE v = STRONG_POSITIVE ->
            (IF sum > 50
             THEN "HIGH PRIORITY: Focus on solutions that address both requirements simultaneously for maximum impact."
             ELSE "Consider bundling these requirements in your development approach.")
      [] v = POSITIVE ->
            (IF sum > 40
             THEN "Look for integrated solutions that can improve both requirements together."
             ELSE "Moderate synergy - consider combined approaches when possible.")
      [] v = NEGATIVE ->
            (IF sum > 60
             THEN "CRITICAL: High-priority requirements in conflict. Develop compromise solutions or phased approach."
             ELSE "Monitor trade-offs carefully during implementation.")
      [] v = STRONG_NEGATIVE ->
            (IF sum > 50
             THEN "URGENT: Strong conflict between important requirements. Consider alternative approaches or accept trade-offs."
             ELSE "Strong conflict exists - may need to prioritize one over the other.")

\* C11: the recommendation of the insight of a correlation record of value v between two
\* requirements is fixed by v and the sum of the two requirements' raw scores: StrongPositive
\* gives HIGH PRIORITY when the sum exceeds 50 and the bundling message otherwise, Positive
\* the integrated-solutions message when it exceeds 40 and the moderate-synergy message
\* otherwise, Negative CRITICAL when it exceeds 60 and the monitor message otherwise,
\* StrongNegative URGENT when it exceeds 50 and the prioritize-one message otherwise.
C11_RecommendationThresholds ==
    pc = "insights" =>
        /\ Len(correlationInsights) = Len(data.technicalCorrelations)
        /\ \A k \in 1..Len(correlationInsights) :
              LET corr == data.technicalCorrelations[k]
              IN  corr.correlation # NONE =>
                    correlationInsights[k].recommendation
                        = ThresholdRecommendation(corr.correlation,
                                                  RawScore(corr.techReq1Id) + RawScore(corr.techReq2Id))

\* a StrongPositive pair whose scores sum to exactly 50 got the bundling message, and the
\* score sum is not what the normalized weights (which sum to 100) would give
C11_Witness ==
    /\ pc = "insights"
    /\ Len(correlationInsights) = 1
    /\ data.technicalCorrelations[1].correlation = STRONG_POSITIVE
    /\ RawScore(TechIds[1]) + RawScore(TechIds[2]) = 50
    /\ correlationInsights[1].recommendation
          = "Consider bundling these requirements in your development approach."


\* the description of the technical requirement of data whose id is tid
DescriptionOf(tid) ==
    (CHOOSE r \in {data.technicalRequirements[i] : i \in 1..Len(data.technicalRequirements)} :
        r.id = tid).description

\* the score calculateTechnicalPriorities returned for tid
ScoreOf(tid) ==
    (CHOOSE q \in {priorities[i] : i \in 1..Len(priorities)} : q.id = tid).score

NonZeroCorrelations == {STRONG_POSITIVE, POSITIVE, NEGATIVE, STRONG_NEGATIVE}

TargetTechLists(n) == {[i \in 1..n |-> TechReq(i, IF i = 1 THEN d ELSE 3)] : d \in DifficultyRange}

TargetInput(cs, ts, st) ==
    [EmptyData EXCEPT !.customerRequirements = cs,
                      !.technicalRequirements = ts,
                      !.relationships = RelationshipRows(st)]

InitTarget ==
    /\ pc = "input"
    /\ \E nc \in 0..Len(CustIds), nt \in 1..Len(TechIds) :
         \E cs \in CustomerLists(nc), ts \in TargetTechLists(nt),
            st \in [1..nc -> [1..nt -> RelationshipStrength]] :
                data = TargetInput(cs, ts, st)
    /\ priorities = Unset
    /\ normalizedPriorities = Unset
    /\ correlationInsights = Unset
    /\ targetImpacts = Unset
    /\ localCompetitorNames = Unset
    /\ debouncedCompetitorNames = Unset
    /\ HookUnset
    /\ args = Unset
    /\ result = Unset

\* a call of calculateTargetImpact(data)
CalculateTargetImpact ==
    /\ pc = "input"
    /\ targetImpacts' = calculateTargetImpact(data)
    /\ pc' = "targets"
    /\ UNCHANGED <<data, priorities, normalizedPriorities, correlationInsights, args, result>>
    /\ UNCHANGED <<localCompetitorNames, debouncedCompetitorNames>>
    /\ HookUnchanged

NextTarget == CalculateTargetImpact

SpecTarget == InitTarget /\ [][NextTarget]_vars


(***************************************************************************)
(* Properties of the normalized priority.                                   *)
(***************************************************************************)
\* the largest raw score among the technical requirements of data, floored at 1
LargestRawScore ==
    MathMax({RawScore(data.technicalRequirements[i].id) : i \in 1..Len(data.technicalRequirements)}
            \cup {1})

\* C13: the normalizedPriority calculateTargetImpact gives a technical requirement is its raw
\* score divided by the largest raw score of all technical requirements, that maximum
\* floored at 1, times 100; it lies in 0..100; when every score is 0, as without customer
\* requirements, every normalizedPriority is 0 (a number: nothing was divided by zero).
C13_NormalizedPriority ==
    pc = "targets" =>
        /\ Len(targetImpacts) = Len(data.technicalRequirements)
        /\ \A i \in 1..Len(targetImpacts) :
              LET score == RawScore(data.technicalRequirements[i].id)
                  np == targetImpacts[i].normalizedPriority
              IN  /\ targetImpacts[i].priorityScore = score
                  /\ np = FMul(FDivInt(score, LargestRawScore), IntToD(100))
                  /\ IsFinite(np)
                  /\ DLe(DZero, np)
                  /\ DLe(np, IntToD(100))
                  /\ (\A j \in 1..Len(targetImpacts) : targetImpacts[j].priorityScore = 0) => np = DZero

\* without customer requirements two technical requirements both got the priority 0
C13_Witness ==
    /\ pc = "targets"
    /\ data.customerRequirements = <<>>
    /\ Len(targetImpacts) = 2
    /\ targetImpacts[1].normalizedPriority = DZero
    /\ targetImpacts[2].normalizedPriority = DZero


\* C14: when some technical requirement has a positive score, every requirement whose score
\* is the largest has normalizedPriority exactly 100, Strategic Importance High for a
\* difficulty below 4 and Critical for 4 and 5, and Implementation Challenge Medium for
\* difficulty 1, High for difficulty 2 and Critical for the difficulties 3 to 5.
C14_TopRequirement ==
    pc = "targets" =>
        \A i \in 1..Len(targetImpacts) :
            LET t == targetImpacts[i]
                score == RawScore(data.technicalRequirements[i].id)
                difficulty == data.technicalRequirements[i].difficulty
            IN  (score > 0 /\ score = LargestRawScore) =>
                    /\ t.normalizedPriority = IntToD(100)
                    /\ t.strategicImportance = (IF difficulty < 4 THEN "High" ELSE "Critical")
                    /\ t.implementationChallenge
                          = (CASE difficulty = 1 -> "Medium"
                               [] difficulty = 2 -> "High"
                               [] difficulty \in 3..5 -> "Critical")

\* one customer requirement of importance 5 strongly related to one technical requirement of
\* difficulty 3: score 45, normalizedPriority 100, Critical challenge, High importance
C14_Witness ==
    /\ pc = "targets"
    /\ Len(data.customerRequirements) = 1
    /\ data.customerRequirements[1].importance = 5
    /\ Len(data.technicalRequirements) = 1
    /\ data.technicalRequirements[1].difficulty = 3
    /\ data.relationships = <<[customerReqId |-> CustIds[1], technicalReqId |-> TechIds[1],
                               strength |-> STRONG]>>
    /\ targetImpacts[1].priorityScore = 45
    /\ targetImpacts[1].normalizedPriority = IntToD(100)
    /\ targetImpacts[1].implementationChallenge = "Critical"
    /\ targetImpacts[1].strategicImportance = "High"


\* C15: calculateTechnicalPriorities returns one TechnicalPriority per technical requirement,
\* in the order of the technical requirements, with the requirement's id and description
\* and relativeWeight 0; the priorities of the calculateCorrelationImpact bundle are that
\* same list, not a normalized one.
C15_OnePriorityPerRequirement ==
    pc = "rendered" =>
        /\ Len(calculateTechnicalPriorities(data)) = Len(data.technicalRequirements)
        /\ \A i \in 1..Len(data.technicalRequirements) :
              LET q == calculateTechnicalPriorities(data)[i]
              IN  /\ q.id = data.technicalRequirements[i].id
                  /\ q.description = data.technicalRequirements[i].description
                  /\ q.score = RawScore(data.technicalRequirements[i].id)
                  /\ q.relativeWeight = DZero
        /\ priorities = calculateTechnicalPriorities(data)

\* the bundle of the sample data lists its three requirements in order with weight 0, while
\* the normalized list has non-zero weights
C15_Witness ==
    /\ pc = "rendered"
    /\ Len(priorities) = 3
    /\ <<priorities[1].id, priorities[2].id, priorities[3].id>> = SampleTechIds
    /\ <<priorities[1].score, priorities[2].score, priorities[3].score>> = <<51, 45, 45>>
    /\ \A i \in 1..3 : priorities[i].relativeWeight = DZero
    /\ \A i \in 1..3 : normalizedPriorities[i].relativeWeight # DZero


\* C16: when every importance lies in 1..5 and every relationship strength in {0, 1, 3, 9},
\* every score calculateTechnicalPriorities returns is a non-negative integer.
C16_ScoresNonNegative ==
    pc = "scored" =>
        ((/\ \A c \in 1..Len(data.customerRequirements) :
                data.customerRequirements[c].importance \in ImportanceRange
          /\ \A k \in 1..Len(data.relationships) :
                data.relationships[k].strength \in RelationshipStrength)
         => \A i \in 1..Len(priorities) : priorities[i].score \in Nat)

\* two customer requirements, one technical requirement without any relationship (score 0)
\* and one with a relationship (positive score)
C16_Witness ==
    /\ pc = "scored"
    /\ Len(data.customerRequirements) = 2
    /\ Len(priorities) = 2
    /\ Len(data.relationships) > 0
    /\ priorities[1].score = 0
    /\ priorities[2].score > 0


(***************************************************************************)
(* The local store (useQFDData.ts).  Every operation is a function from    *)
(* the previous QFDData to the next one, as its setData callback is.       *)
(***************************************************************************)
\* the technical requirement ids of the store, in ascending order of the strings; generateId
\* (useQFDData.ts:4) returns a string over 0-9a-z, here any of these that is not in use
SortedTechIds == <<"tech1", "tech2", "tech3">>

\* the position of id in the ascending order
IdRank(id) == CHOOSE i \in 1..Len(SortedTechIds) : SortedTechIds[i] = id

\* [a, b].sort(): the two strings in ascending order (the order given when they are equal)
SortPair(a, b) == IF a # b /\ IdRank(b) < IdRank(a) THEN <<b, a>> ELSE <<a, b>>

\* the sequence seq without its element at position i
Splice(seq, i) == SubSeq(seq, 1, i - 1) \o SubSeq(seq, i + 1, Len(seq))

initialData == EmptyData

addCustomerRequirement(prev, id) ==
    LET newReq == [id |-> id, description |-> "", importance |-> 3,
                   competitorRatings |-> [i \in 1..Len(prev.competitorNames) |-> 3]]
    IN  [prev EXCEPT !.customerRequirements = Append(@, newReq)]

removeCustomerRequirement(prev, id) ==
    LET KeepReq(req) == req.id # id
        KeepRel(rel) == rel.customerReqId # id
    IN  [prev EXCEPT !.customerRequirements = SelectSeq(@, KeepReq),
                     !.relationships = SelectSeq(@, KeepRel)]

\* { ...req, ...updates }
Merge(req, updates) == [f \in DOMAIN req |-> IF f \in DOMAIN updates THEN updates[f] ELSE req[f]]

updateCustomerRequirement(prev, id, updates) ==
    [prev EXCEPT !.customerRequirements =
        [i \in 1..Len(@) |-> IF @[i].id = id THEN Merge(@[i], updates) ELSE @[i]]]

addTechnicalRequirement(prev, id) ==
    LET newReq == [id |-> id, description |-> "", unit |-> "", target |-> "",
                   difficulty |-> 3, importance |-> 0]
    IN  [prev EXCEPT !.technicalRequirements = Append(@, newReq)]

\* a filter that looks at the first position of a correlation only
removeTechnicalRequirement_FirstPosition(prev, id) ==
    LET KeepReq(req) == req.id # id
        KeepRel(rel) == rel.technicalReqId # id
        KeepCorr(corr) == corr.techReq1Id # id
    IN  [prev EXCEPT !.technicalRequirements = SelectSeq(@, KeepReq),
                     !.relationships = SelectSeq(@, KeepRel),
                     !.technicalCorrelations = SelectSeq(@, KeepCorr)]

removeTechnicalRequirement(prev, id) ==
    LET KeepReq(req) == req.id # id
        KeepRel(rel) == rel.technicalReqId # id
        KeepCorr(corr) == corr.techReq1Id # id /\ corr.techReq2Id # id
    IN  [prev EXCEPT !.technicalRequirements = SelectSeq(@, KeepReq),
                     !.relationships = SelectSeq(@, KeepRel),
                     !.technicalCorrelations = SelectSeq(@, KeepCorr)]

\* a new record pushed whether or not the pair has one
updateRelationship_AlwaysPush(prev, customerReqId, technicalReqId, strength) ==
    LET Same(rel) == rel.customerReqId = customerReqId /\ rel.technicalReqId = technicalReqId
        existingRelIndex == FindIndex(prev.relationships, Same)
        newRel == [customerReqId |-> customerReqId, technicalReqId |-> technicalReqId,
                   strength |-> strength]
        newRelationships ==
            IF strength = NONE
            THEN (IF existingRelIndex # 0 THEN Splice(prev.relationships, existingRelIndex)
                  ELSE prev.relationships)
            ELSE Append(prev.relationships, newRel)
    IN  [prev EXCEPT !.relationships = newRelationships]

updateRelationship(prev, customerReqId, technicalReqId, strength) ==
    LET Same(rel) == rel.customerReqId = customerReqId /\ rel.technicalReqId = technicalReqId
        existingRelIndex == FindIndex(prev.relationships, Same)
        newRel == [customerReqId |-> customerReqId, technicalReqId |-> technicalReqId,
                   strength |-> strength]
        newRelationships ==
            IF strength = NONE
            THEN (IF existingRelIndex # 0 THEN Splice(prev.relationships, existingRelIndex)
                  ELSE prev.relationships)
            ELSE (IF existingRelIndex # 0
                  THEN [prev.relationships EXCEPT ![existingRelIndex] = newRel]
                  ELSE Append(prev.relationships, newRel))
    IN  [prev EXCEPT !.relationships = newRelationships]

\* a record stored in the order of the arguments
updateCorrelation_Unsorted(prev, techReq1Id, techReq2Id, correlation) ==
    LET Same(corr) == \/ (corr.techReq1Id = techReq1Id /\ corr.techReq2Id = techReq2Id)
                      \/ (corr.techReq1Id = techReq2Id /\ corr.techReq2Id = techReq1Id)
        existingCorrIndex == FindIndex(prev.technicalCorrelations, Same)
        sorted == <<techReq1Id, techReq2Id>>
        newCorr == [techReq1Id |-> sorted[1], techReq2Id |-> sorted[2], correlation |-> correlation]
        newCorrelations ==
            IF correlation = NONE
            THEN (IF existingCorrIndex # 0 THEN Splice(prev.technicalCorrelations, existingCorrIndex)
                  ELSE prev.technicalCorrelations)
            ELSE (IF existingCorrIndex # 0
                  THEN [prev.technicalCorrelations EXCEPT ![existingCorrIndex] = newCorr]
                  ELSE Append(prev.technicalCorrelations, newCorr))
    IN  [prev EXCEPT !.technicalCorrelations = newCorrelations]

\* a search for the record of the pair in the order of the arguments only
updateCorrelation_OneDirection(prev, techReq1Id, techReq2Id, correlation) ==
    LET Same(corr) == corr.techReq1Id = techReq1Id /\ corr.techReq2Id = techReq2Id
        existingCorrIndex == FindIndex(prev.technicalCorrelations, Same)
        sorted == SortPair(techReq1Id, techReq2Id)
        newCorr == [techReq1Id |-> sorted[1], techReq2Id |-> sorted[2], correlation |-> correlation]
        newCorrelations ==
            IF correlation = NONE
            THEN (IF existingCorrIndex # 0 THEN Splice(prev.technicalCorrelations, existingCorrIndex)
                  ELSE prev.technicalCorrelations)
            ELSE (IF existingCorrIndex # 0
                  THEN [prev.technicalCorrelations EXCEPT ![existingCorrIndex] = newCorr]
                  ELSE Append(prev.technicalCorrelations, newCorr))
    IN  [prev EXCEPT !.technicalCorrelations = newCorrelations]

updateCorrelation(prev, techReq1Id, techReq2Id, correlation) ==
    LET Same(corr) == \/ (corr.techReq1Id = techReq1Id /\ corr.techReq2Id = techReq2Id)
                      \/ (corr.techReq1Id = techReq2Id /\ corr.techReq2Id = techReq1Id)
        existingCorrIndex == FindIndex(prev.technicalCorrelations, Same)
        sorted == SortPair(techReq1Id, techReq2Id)
        newCorr == [techReq1Id |-> sorted[1], techReq2Id |-> sorted[2], correlation |-> correlation]
        newCorrelations ==
            IF correlation = NONE
            THEN (IF existingCorrIndex # 0 THEN Splice(prev.technicalCorrelations, existingCorrIndex)
                  ELSE prev.technicalCorrelations)
            ELSE (IF existingCorrIndex # 0
                  THEN [prev.technicalCorrelations EXCEPT ![existingCorrIndex] = newCorr]
                  ELSE Append(prev.technicalCorrelations, newCorr))
    IN  [prev EXCEPT !.technicalCorrelations = newCorrelations]

\* req.competitorRatings[index] || 3: 3 for a missing (or zero) rating
RatingOr3(ratings, index) == IF index <= Len(ratings) /\ ratings[index] # 0 THEN ratings[index] ELSE 3

updateCompetitorNames(prev, names) ==
    LET updatedCustomerReqs ==
            [i \in 1..Len(prev.customerRequirements) |->
                LET req == prev.customerRequirements[i]
                    newRatings == [index \in 1..Len(names) |-> RatingOr3(req.competitorRatings, index)]
                IN  [req EXCEPT !.competitorRatings = newRatings]]
    IN  [prev EXCEPT !.competitorNames = names, !.customerRequirements = updatedCustomerReqs]

loadSampleData == SampleData

\* the ids of the requirements in a list
IdsOf(reqs) == {reqs[i].id : i \in 1..Len(reqs)}


(***************************************************************************)
(* The store actions.  args records the call, pc its name.                  *)
(***************************************************************************)
InitStore ==
    /\ pc = "initial"
    /\ data = initialData
    /\ args = Unset
    /\ result = Unset
    /\ priorities = Unset
    /\ normalizedPriorities = Unset
    /\ correlationInsights = Unset
    /\ targetImpacts = Unset
    /\ localCompetitorNames = Unset
    /\ debouncedCompetitorNames = Unset
    /\ HookUnset

\* what no store action touches
StoreUnchanged ==
    /\ UNCHANGED <<result, priorities, normalizedPriorities, correlationInsights, targetImpacts,
                   localCompetitorNames, debouncedCompetitorNames>>
    /\ HookUnchanged

\* addTechnicalRequirement(), generateId returning one of ids
AddTechnicalRequirement(ids) ==
    \E k \in 1..Len(ids) :
        /\ ids[k] \notin IdsOf(data.technicalRequirements)
        /\ data' = addTechnicalRequirement(data, ids[k])
        /\ args' = <<ids[k]>>
        /\ pc' = "addTechnicalRequirement"
        /\ StoreUnchanged

\* removeTechnicalRequirement(id), the remove button of a listed requirement
RemoveTechnicalRequirement ==
    \E id \in IdsOf(data.technicalRequirements) :
        /\ data' = removeTechnicalRequirement(data, id)
        /\ args' = <<id>>
        /\ pc' = "removeTechnicalRequirement"
        /\ StoreUnchanged

\* updateCorrelation(techReq1Id, techReq2Id, correlation) for two different listed requirements
UpdateCorrelation ==
    \E techReq1Id, techReq2Id \in IdsOf(data.technicalRequirements), correlation \in CorrelationType :
        /\ techReq1Id # techReq2Id
        /\ data' = updateCorrelation(data, techReq1Id, techReq2Id, correlation)
        /\ args' = <<techReq1Id, techReq2Id, correlation>>
        /\ pc' = "updateCorrelation"
        /\ StoreUnchanged

\* loadSampleData()
LoadSampleData ==
    /\ data' = loadSampleData
    /\ args' = Unset
    /\ pc' = "loadSampleData"
    /\ StoreUnchanged

NextCorrelationStore ==
    \/ AddTechnicalRequirement(SortedTechIds)
    \/ RemoveTechnicalRequirement
    \/ UpdateCorrelation
    \/ LoadSampleData

SpecCorrelationStore == InitStore /\ [][NextCorrelationStore]_vars


\* addCustomerRequirement(), generateId returning one of ids
AddCustomerRequirement(ids) ==
    \E k \in 1..Len(ids) :
        /\ ids[k] \notin IdsOf(data.customerRequirements)
        /\ data' = addCustomerRequirement(data, ids[k])
        /\ args' = <<ids[k]>>
        /\ pc' = "addCustomerRequirement"
        /\ StoreUnchanged

\* removeCustomerRequirement(id), the remove button of a listed requirement
RemoveCustomerRequirement ==
    \E id \in IdsOf(data.customerRequirements) :
        /\ data' = removeCustomerRequirement(data, id)
        /\ args' = <<id>>
        /\ pc' = "removeCustomerRequirement"
        /\ StoreUnchanged

\* updateRelationship(customerReqId, technicalReqId, strength) for a cell of the matrix; the
\* list grows to MaxRel records
UpdateRelationship ==
    \E customerReqId \in IdsOf(data.customerRequirements),
       technicalReqId \in IdsOf(data.technicalRequirements), strength \in RelationshipStrength :
        /\ Len(updateRelationship(data, customerReqId, technicalReqId, strength).relationships) <= MaxRel
        /\ data' = updateRelationship(data, customerReqId, technicalReqId, strength)
        /\ args' = <<customerReqId, technicalReqId, strength>>
        /\ pc' = "updateRelationship"
        /\ StoreUnchanged

\* the relationship matrix of a store that starts empty
NextRelationshipStore ==
    \/ AddCustomerRequirement(CustIds)
    \/ AddTechnicalRequirement(TechIds)
    \/ RemoveCustomerRequirement
    \/ RemoveTechnicalRequirement
    \/ UpdateRelationship

SpecRelationshipStore == InitStore /\ [][NextRelationshipStore]_vars

\* the store after loadSampleData(), edited in the correlation matrix and by removing
\* technical requirements
InitSampleStore ==
    /\ pc = "loadSampleData"
    /\ data = loadSampleData
    /\ args = Unset
    /\ result = Unset
    /\ priorities = Unset
    /\ normalizedPriorities = Unset
    /\ correlationInsights = Unset
    /\ targetImpacts = Unset
    /\ localCompetitorNames = Unset
    /\ debouncedCompetitorNames = Unset
    /\ HookUnset

NextSampleStore ==
    \/ RemoveTechnicalRequirement
    \/ UpdateCorrelation

SpecSampleStore == InitSampleStore /\ [][NextSampleStore]_vars

(***************************************************************************)
(* Properties of the stored correlations.                                   *)
(***************************************************************************)
\* the records of the list l for the unordered pair {a, b}
RecordsOfPair(l, a, b) ==
    {k \in 1..Len(l) : {l[k].techReq1Id, l[k].techReq2Id} = {a, b}}

\* C17: from any state of the local store, for two different ids a and b and any value v,
\* updateCorrelation(a, b, v) and updateCorrelation(b, a, v) leave the same
\* technicalCorrelations list, the pair's record stored with the smaller id first, and so
\* the same correlation insights.
C17_CorrelationSymmetry ==
    \A k1, k2 \in 1..Len(SortedTechIds), v \in CorrelationType :
        k1 < k2 =>
            LET a == SortedTechIds[k1]
                b == SortedTechIds[k2]
                ab == updateCorrelation(data, a, b, v)
                ba == updateCorrelation(data, b, a, v)
            IN  /\ ab.technicalCorrelations = ba.technicalCorrelations
                /\ \A k \in RecordsOfPair(ba.technicalCorrelations, a, b) :
                      /\ ba.technicalCorrelations[k].techReq1Id = a
                      /\ ba.technicalCorrelations[k].techReq2Id = b
                /\ calculateCorrelationImpact(ab).correlationInsights
                      = calculateCorrelationImpact(ba).correlationInsights

\* updateCorrelation was called with the larger id first on a pair whose record is not the
\* last of the list: the record stayed where it was, holds the new value, smaller id first
C17_Witness ==
    /\ pc = "updateCorrelation"
    /\ IdRank(args[1]) > IdRank(args[2])
    /\ args[3] # NONE
    /\ Len(data.technicalCorrelations) >= 2
    /\ data.technicalCorrelations[1] = [techReq1Id |-> args[2], techReq2Id |-> args[1],
                                        correlation |-> args[3]]


\* C18: in every state of the local store reached from the empty store or from the sample
\* data by updateCorrelation calls on two different ids and removeTechnicalRequirement
\* calls, the stored correlations hold at most one record per unordered pair of technical
\* requirements, every record has the smaller id first, and no record has the value None.
C18_CanonicalCorrelations ==
    LET l == data.technicalCorrelations
    IN  /\ \A i, j \in 1..Len(l) :
              i # j => {l[i].techReq1Id, l[i].techReq2Id} # {l[j].techReq1Id, l[j].techReq2Id}
        /\ \A i \in 1..Len(l) :
              /\ IdRank(l[i].techReq1Id) < IdRank(l[i].techReq2Id)
              /\ l[i].correlation # NONE

\* a store built from the empty one, its requirements listed in another order than their
\* ids, every pair correlated, the last call made with the larger id first
C18_Witness ==
    /\ pc = "updateCorrelation"
    /\ IdRank(args[1]) > IdRank(args[2])
    /\ args[3] = STRONG_NEGATIVE
    /\ Len(data.technicalRequirements) = 3
    /\ data.technicalRequirements[1].id = SortedTechIds[3]
    /\ data.technicalRequirements[1].description = ""
    /\ Len(data.technicalCorrelations) = 3
    /\ data.technicalCorrelations[1].correlation = STRONG_NEGATIVE


(***************************************************************************)
(* Properties of the stored relationships.                                  *)
(***************************************************************************)
\* the positions of the list l that hold a record of the pair (c, t)
PositionsOfPair(l, c, t) == {k \in 1..Len(l) : l[k].customerReqId = c /\ l[k].technicalReqId = t}

\* C19: in every state of the local store reached from the empty store by updateRelationship,
\* removeCustomerRequirement and removeTechnicalRequirement calls there is at most one
\* relationship record per (customer, technical) pair and none of strength None;
\* updateRelationship with None removes the pair's record if there is one, and with another
\* strength replaces the pair's record where it is or, without one, appends a record.
C19_CanonicalRelationships ==
    LET l == data.relationships
    IN  /\ \A i \in 1..Len(l) :
              /\ l[i].strength # NONE
              /\ PositionsOfPair(l, l[i].customerReqId, l[i].technicalReqId) = {i}
        /\ \A kc \in 1..Len(CustIds), kt \in 1..Len(TechIds), s \in RelationshipStrength :
              LET c == CustIds[kc]
                  t == TechIds[kt]
                  new == updateRelationship(data, c, t, s).relationships
                  old == PositionsOfPair(l, c, t)
                  NotPair(rel) == ~(rel.customerReqId = c /\ rel.technicalReqId = t)
                  rec == [customerReqId |-> c, technicalReqId |-> t, strength |-> s]
              IN  /\ SelectSeq(new, NotPair) = SelectSeq(l, NotPair)
                  /\ s = NONE => PositionsOfPair(new, c, t) = {}
                  /\ (s # NONE /\ old # {}) =>
                        /\ Len(new) = Len(l)
                        /\ PositionsOfPair(new, c, t) = old
                        /\ \A k \in old : new[k] = rec
                  /\ (s # NONE /\ old = {}) => new = Append(l, rec)

\* a store of two records in which the first, set to Weak and then to Strong, kept its place
C19_Witness ==
    /\ pc = "updateRelationship"
    /\ args[3] = STRONG
    /\ Len(data.relationships) = 2
    /\ data.relationships[1] = [customerReqId |-> args[1], technicalReqId |-> args[2],
                                strength |-> STRONG]
    /\ data.relationships[2].strength = WEAK


(***************************************************************************)
(* The competitor columns: the store and the CustomerRequirements          *)
(* component (CustomerRequirements.tsx), which keeps the names it shows in *)
(* localCompetitorNames and hands them to the store when they have not     *)
(* changed for a second (useDebounce).                                     *)
(***************************************************************************)
\* the most competitor columns the component is given
MaxCompetitors == 3

\* the rating a select of the table is set to (a new requirement has the rating 3)
ChosenRatings == {5}

\* `Competitor ${localCompetitorNames.length + 1}`
NewCompetitorName(n) ==
    CASE n = 0 -> "Competitor 1"
      [] n = 1 -> "Competitor 2"
      [] n = 2 -> "Competitor 3"
      [] OTHER -> "Competitor 4"

InitCompetitors ==
    /\ pc = "initial"
    /\ data = initialData
    /\ localCompetitorNames = initialData.competitorNames
    /\ debouncedCompetitorNames = initialData.competitorNames
    /\ HookUnset
    /\ args = Unset
    /\ result = Unset
    /\ priorities = Unset
    /\ normalizedPriorities = Unset
    /\ correlationInsights = Unset
    /\ targetImpacts = Unset

\* what neither the store nor the component touches
EngineUnchanged ==
    /\ UNCHANGED <<result, priorities, normalizedPriorities, correlationInsights, targetImpacts>>
    /\ HookUnchanged

\* the Add Requirement button
ClickAddRequirement ==
    \E k \in 1..Len(CustIds) :
        /\ CustIds[k] \notin IdsOf(data.customerRequirements)
        /\ data' = addCustomerRequirement(data, CustIds[k])
        /\ args' = <<CustIds[k]>>
        /\ pc' = "addCustomerRequirement"
        /\ UNCHANGED <<localCompetitorNames, debouncedCompetitorNames>>
    /\ HookUnchanged
        /\ EngineUnchanged

\* newRatings[competitorIndex] = rating on a copy of the ratings: a position behind the
\* end lengthens the array, the positions in between left empty (0 here)
SetRating(ratings, competitorIndex, rating) ==
    [i \in 1..(IF competitorIndex > Len(ratings) THEN competitorIndex ELSE Len(ratings)) |->
        IF i = competitorIndex THEN rating
        ELSE IF i <= Len(ratings) THEN ratings[i] ELSE 0]

\* updateCompetitorRating(reqId, competitorIndex, rating): a select of the column
\* competitorIndex of the shown names
UpdateCompetitorRating ==
    \E k \in 1..Len(data.customerRequirements), competitorIndex \in 1..Len(localCompetitorNames),
       rating \in ChosenRatings :
        LET requirement == data.customerRequirements[k]
            newRatings == SetRating(requirement.competitorRatings, competitorIndex, rating)
        IN  /\ data' = updateCustomerRequirement(data, requirement.id, [competitorRatings |-> newRatings])
            /\ args' = <<requirement.id, competitorIndex, rating>>
            /\ pc' = "updateCompetitorRating"
            /\ UNCHANGED <<localCompetitorNames, debouncedCompetitorNames>>
    /\ HookUnchanged
            /\ EngineUnchanged

\* addCompetitor()
AddCompetitor ==
    /\ Len(localCompetitorNames) < MaxCompetitors
    /\ localCompetitorNames' = Append(localCompetitorNames, NewCompetitorName(Len(localCompetitorNames)))
    /\ args' = Unset
    /\ pc' = "addCompetitor"
    /\ UNCHANGED <<data, debouncedCompetitorNames>>
    /\ EngineUnchanged

RECURSIVE RemoveRatings(_, _, _)
\* the forEach of removeCompetitor over the first n requirements: each gets its ratings
\* without the one at index
RemoveRatings(d, n, index) ==
    IF n = 0 THEN d
    ELSE LET req == data.customerRequirements[n]
             newRatings == Splice(req.competitorRatings, index)
         IN  updateCustomerRequirement(RemoveRatings(d, n - 1, index), req.id,
                                       [competitorRatings |-> IF index <= Len(req.competitorRatings)
                                                              THEN newRatings
                                                              ELSE req.competitorRatings])

\* removeCompetitor(index): the X of a shown name
RemoveCompetitor ==
    \E index \in 1..Len(localCompetitorNames) :
        /\ localCompetitorNames' = Splice(localCompetitorNames, index)
        /\ data' = RemoveRatings(data, Len(data.customerRequirements), index)
        /\ args' = <<index>>
        /\ pc' = "removeCompetitor"
        /\ UNCHANGED debouncedCompetitorNames
        /\ EngineUnchanged

\* the shown names have not changed for a second: debouncedCompetitorNames takes them, and
\* the effect of CustomerRequirements.tsx:49-53 hands them to updateCompetitorNames when they
\* differ from the store's
DebounceElapsed ==
    /\ debouncedCompetitorNames # localCompetitorNames
    /\ debouncedCompetitorNames' = localCompetitorNames
    /\ data' = IF localCompetitorNames # data.competitorNames
               THEN updateCompetitorNames(data, localCompetitorNames)
               ELSE data
    /\ args' = <<localCompetitorNames>>
    /\ pc' = "updateCompetitorNames"
    /\ UNCHANGED localCompetitorNames
    /\ EngineUnchanged

NextCompetitors ==
    \/ ClickAddRequirement
    \/ UpdateCompetitorRating
    \/ AddCompetitor
    \/ RemoveCompetitor
    \/ DebounceElapsed

SpecCompetitors == InitCompetitors /\ [][NextCompetitors]_vars

(***************************************************************************)
(* Properties of the competitor columns.                                    *)
(***************************************************************************)
\* C20: in every state of the local store every customer requirement has as many competitor
\* ratings as there are competitor names, also between a click on remove-competitor and the
\* delivery of the debounced names.
C20_RatingsMatchNames ==
    \A i \in 1..Len(data.customerRequirements) :
        Len(data.customerRequirements[i].competitorRatings) = Len(data.competitorNames)


(***************************************************************************)
(* updateCorrelation as the hook exports it: called with any two listed    *)
(* ids, the same id twice included.                                         *)
(***************************************************************************)
\* updateCorrelation(techReq1Id, techReq2Id, correlation) for any two listed requirements
CallUpdateCorrelation ==
    \E techReq1Id, techReq2Id \in IdsOf(data.technicalRequirements), correlation \in CorrelationType :
        /\ data' = updateCorrelation(data, techReq1Id, techReq2Id, correlation)
        /\ args' = <<techReq1Id, techReq2Id, correlation>>
        /\ pc' = "updateCorrelation"
        /\ StoreUnchanged

NextCorrelationHook ==
    \/ AddTechnicalRequirement(TechIds)
    \/ RemoveTechnicalRequirement
    \/ CallUpdateCorrelation

SpecCorrelationHook == InitStore /\ [][NextCorrelationHook]_vars

\* C21: updateCorrelation called with the same id twice stores nothing, so every stored
\* correlation record of the local store has techReq1Id different from techReq2Id.
C21_NoSelfCorrelation ==
    \A k \in 1..Len(data.technicalCorrelations) :
        data.technicalCorrelations[k].techReq1Id # data.technicalCorrelations[k].techReq2Id


(***************************************************************************)
(* Removing requirements from the sample data.                              *)
(***************************************************************************)
NextRemoval ==
    \/ RemoveTechnicalRequirement
    \/ RemoveCustomerRequirement
    \/ UpdateCorrelation

SpecRemoval == InitSampleStore /\ [][NextRemoval]_vars

\* what removeTechnicalRequirement(id) has to leave of the store before
AfterTechnicalRemoval(before, after, id) ==
    LET OtherReq(req) == req.id # id
        OtherRel(rel) == rel.technicalReqId # id
        OtherCorr(corr) == corr.techReq1Id # id /\ corr.techReq2Id # id
    IN  /\ id \notin IdsOf(after.technicalRequirements)
        /\ \A k \in 1..Len(after.relationships) : after.relationships[k].technicalReqId # id
        /\ \A k \in 1..Len(after.technicalCorrelations) :
              id \notin {after.technicalCorrelations[k].techReq1Id, after.technicalCorrelations[k].techReq2Id}
        /\ after.technicalRequirements = SelectSeq(before.technicalRequirements, OtherReq)
        /\ after.relationships = SelectSeq(before.relationships, OtherRel)
        /\ after.technicalCorrelations = SelectSeq(before.technicalCorrelations, OtherCorr)
        /\ after.customerRequirements = before.customerRequirements
        /\ after.competitorNames = before.competitorNames

\* what removeCustomerRequirement(id) has to leave of the store before
AfterCustomerRemoval(before, after, id) ==
    LET OtherReq(req) == req.id # id
        OtherRel(rel) == rel.customerReqId # id
    IN  /\ id \notin IdsOf(after.customerRequirements)
        /\ \A k \in 1..Len(after.relationships) : after.relationships[k].customerReqId # id
        /\ after.customerRequirements = SelectSeq(before.customerRequirements, OtherReq)
        /\ after.relationships = SelectSeq(before.relationships, OtherRel)
        /\ after.technicalRequirements = before.technicalRequirements
        /\ after.technicalCorrelations = before.technicalCorrelations
        /\ after.competitorNames = before.competitorNames

\* C22: after removeTechnicalRequirement(id) the store holds no technical requirement, no
\* relationship and no correlation (in either position) that references id, and after
\* removeCustomerRequirement(id) no customer requirement and no relationship that references
\* id; everything else, the competitor names included, is as before and in the same order.
C22_RemovalFrame ==
    [][/\ pc' = "removeTechnicalRequirement" => AfterTechnicalRemoval(data, data', args'[1])
       /\ pc' = "removeCustomerRequirement" => AfterCustomerRemoval(data, data', args'[1])]_vars

\* tech2 was removed from the sample data: its relationship and the two correlations that
\* name it, one in each position, are gone, the rest is in place
C22_Witness ==
    /\ pc = "removeTechnicalRequirement"
    /\ args = <<"tech2">>
    /\ IdsOf(data.technicalRequirements) = {"tech1", "tech3"}
    /\ Len(data.customerRequirements) = 3
    /\ Len(data.relationships) = 3
    /\ data.technicalCorrelations
          = <<[techReq1Id |-> "tech1", techReq2Id |-> "tech3", correlation |-> POSITIVE]>>


(***************************************************************************)
(* calculateCorrelationImpact on correlation records that name             *)
(* requirements the snapshot does not list: one customer requirement, one  *)
(* or two of three technical requirements, correlation records between     *)
(* any of the three.                                                        *)
(***************************************************************************)
InitDangling ==
    /\ pc = "input"
    /\ \E nt \in 1..Len(TechIds) :
         \E st \in [1..nt -> RelationshipStrength], cl \in CorrelationLists(SampleTechIds) :
            data = AnalyzerInput([i \in 1..nt |-> TechReq(i, 3)], st, cl)
    /\ priorities = Unset
    /\ normalizedPriorities = Unset
    /\ correlationInsights = Unset
    /\ targetImpacts = Unset
    /\ localCompetitorNames = Unset
    /\ debouncedCompetitorNames = Unset
    /\ HookUnset
    /\ args = Unset
    /\ result = Unset

NextDangling == CalculateCorrelationImpact

SpecDangling == InitDangling /\ [][NextDangling]_vars

\* both requirements of the correlation record are listed in data
BothListed(corr) ==
    /\ corr.techReq1Id \in IdsOf(data.technicalRequirements)
    /\ corr.techReq2Id \in IdsOf(data.technicalRequirements)

\* C23: a correlation record that names an id technicalRequirements does not list gets no
\* insight from calculateCorrelationImpact and raises no error; the other records get the
\* insights they get without it, in their order.
C23_DanglingRecordsSkipped ==
    pc = "insights" =>
        LET listed == SelectSeq(data.technicalCorrelations, BothListed)
        IN  /\ Len(correlationInsights) = Len(listed)
            /\ correlationInsights
                  = calculateCorrelationImpact([data EXCEPT !.technicalCorrelations = listed]).correlationInsights
            /\ \A k \in 1..Len(listed) :
                  /\ correlationInsights[k].req1 = DescriptionOf(listed[k].techReq1Id)
                  /\ correlationInsights[k].req2 = DescriptionOf(listed[k].techReq2Id)
                  /\ correlationInsights[k].correlation = listed[k].correlation

\* a record that names the unlisted tech3, followed by a record between the two listed
\* requirements: one insight, that of the second record
C23_Witness ==
    /\ pc = "insights"
    /\ Len(data.technicalRequirements) = 2
    /\ Len(data.technicalCorrelations) = 2
    /\ data.technicalCorrelations[1].techReq2Id = "tech3"
    /\ BothListed(data.technicalCorrelations[2])
    /\ Len(correlationInsights) = 1
    /\ correlationInsights[1].correlation = data.technicalCorrelations[2].correlation


(***************************************************************************)
(* The request queue of useSupabaseQFD.  requestQueue and                  *)
(* isProcessingQueue are React state: a setter's update is in the value at *)
(* once, a render hands the values of its moment to the queue effect, and  *)
(* the effect of a render runs before the next render.  A request is named *)
(* by the number of the queueRequest call that passed it.                  *)
(***************************************************************************)
MaxRequests == 3

\* `customer-${requirement.id}` and `technical-${requirement.id}`
RequestIds == {"customer-cust1", "technical-tech1"}

\* the updater of queueRequest
queueRequest(prev, id, request) ==
    LET Other(item) == item.id # id
        filtered == SelectSeq(prev, Other)
    IN  Append(filtered, [id |-> id, request |-> request])

\* the effect goes on to processQueue
QueueEffectRuns(queue, processing) ==
    ~(Len(queue) = 0 \/ processing)

\* the hook after its first render and effect
InitQueue ==
    /\ pc = "mounted"
    /\ data = EmptyData
    /\ priorities = Unset
    /\ normalizedPriorities = Unset
    /\ correlationInsights = Unset
    /\ targetImpacts = Unset
    /\ localCompetitorNames = Unset
    /\ debouncedCompetitorNames = Unset
    /\ args = Unset
    /\ result = Unset
    /\ requestQueue = <<>>
    /\ isProcessingQueue = FALSE
    /\ rendered = [requestQueue |-> <<>>, isProcessingQueue |-> FALSE, effectPending |-> FALSE]
    /\ loops = <<>>
    /\ executed = <<>>
    /\ passed = <<>>
    /\ replaced = {}
    /\ relationshipRows = Unset
    /\ error = "null"

QueueUnchanged ==
    UNCHANGED <<data, priorities, normalizedPriorities, correlationInsights, targetImpacts,
                localCompetitorNames, debouncedCompetitorNames, result, relationshipRows>>

\* queueRequest(id, request), called by saveCustomerRequirement and saveTechnicalRequirement
QueueRequest ==
    /\ Len(passed) < MaxRequests
    /\ \E id \in RequestIds :
         LET request == Len(passed) + 1
         IN  /\ requestQueue' = queueRequest(requestQueue, id, request)
             /\ passed' = Append(passed, [id |-> id, request |-> request])
             /\ replaced' = replaced \cup
                    {requestQueue[i].request : i \in {j \in 1..Len(requestQueue) : requestQueue[j].id = id}}
             /\ args' = <<id, request>>
    /\ pc' = "queueRequest"
    /\ UNCHANGED <<isProcessingQueue, rendered, loops, executed, error>>
    /\ QueueUnchanged

\* a render of the hook: the effect's closure gets the current values
Render ==
    /\ ~rendered.effectPending
    /\ \/ requestQueue # rendered.requestQueue
       \/ isProcessingQueue # rendered.isProcessingQueue
    /\ rendered' = [requestQueue |-> requestQueue, isProcessingQueue |-> isProcessingQueue,
                    effectPending |-> TRUE]
    /\ pc' = "render"
    /\ UNCHANGED <<requestQueue, isProcessingQueue, loops, executed, passed, replaced, error, args>>
    /\ QueueUnchanged

\* the queue effect, up to the first await of processQueue
ProcessQueue ==
    /\ rendered.effectPending
    /\ rendered' = [rendered EXCEPT !.effectPending = FALSE]
    /\ IF QueueEffectRuns(rendered.requestQueue, rendered.isProcessingQueue)
       THEN /\ isProcessingQueue' = TRUE
            /\ loops' = Append(loops, [currentQueue |-> rendered.requestQueue, next |-> 1])
            /\ requestQueue' = <<>>
       ELSE UNCHANGED <<isProcessingQueue, loops, requestQueue>>
    /\ pc' = "processQueue"
    /\ UNCHANGED <<executed, passed, replaced, error, args>>
    /\ QueueUnchanged

\* one turn of the for loop: the request, resolved or rejected, and the delay
ExecuteRequest ==
    /\ \E k \in 1..Len(loops) :
         /\ loops[k].next <= Len(loops[k].currentQueue)
         /\ executed' = Append(executed, loops[k].currentQueue[loops[k].next])
         /\ loops' = [loops EXCEPT ![k].next = @ + 1]
    /\ \E failed \in BOOLEAN :
         error' = IF failed THEN "Failed to save" ELSE error
    /\ pc' = "request"
    /\ UNCHANGED <<requestQueue, isProcessingQueue, rendered, passed, replaced, args>>
    /\ QueueUnchanged

\* the end of processQueue
FinishProcessing ==
    /\ \E k \in 1..Len(loops) :
         /\ loops[k].next > Len(loops[k].currentQueue)
         /\ loops' = Splice(loops, k)
    /\ isProcessingQueue' = FALSE
    /\ pc' = "processed"
    /\ UNCHANGED <<requestQueue, rendered, executed, passed, replaced, error, args>>
    /\ QueueUnchanged

NextQueue == QueueRequest \/ Render \/ ProcessQueue \/ ExecuteRequest \/ FinishProcessing

SpecQueue == InitQueue /\ [][NextQueue]_vars

\* renders, effects and the turns of the loop are not postponed forever
SpecQueueFair ==
    /\ SpecQueue
    /\ WF_vars(Render)
    /\ WF_vars(ProcessQueue)
    /\ WF_vars(ExecuteRequest)
    /\ WF_vars(FinishProcessing)

WasExecuted(n) == \E i \in 1..Len(executed) : executed[i].request = n

\* C24: every request passed to queueRequest is eventually executed, unless a later
\* queueRequest with its id replaces it while it waits.
C24_EveryRequestExecuted ==
    \A n \in 1..MaxRequests : (Len(passed) >= n) ~> (WasExecuted(n) \/ n \in replaced)


\* no two waiting entries have the same request id
NoDuplicateIds ==
    \A i, j \in 1..Len(requestQueue) : requestQueue[i].id = requestQueue[j].id => i = j

\* after queueRequest(id, r) the entry of r is the last one and the only one with its id
QueuedLast ==
    pc = "queueRequest" =>
        /\ requestQueue[Len(requestQueue)] = [id |-> args[1], request |-> args[2]]
        /\ \A i \in 1..Len(requestQueue) - 1 : requestQueue[i].id # args[1]

\* a request that was replaced while it waited is not sent
ReplacedNeverSent == \A n \in replaced : ~WasExecuted(n)

\* the running loop has executed the first requests of its batch, in the order of the batch
BatchInOrder ==
    \A k \in 1..Len(loops) :
        LET done == loops[k].next - 1
        IN  /\ done <= Len(executed)
            /\ SubSeq(executed, Len(executed) - done + 1, Len(executed))
                  = SubSeq(loops[k].currentQueue, 1, done)

\* C25: the waiting queue never holds two entries with the same request id, queueRequest(id, r)
\* removes the waiting entry with that id and appends r at the end, of the waiting writes to
\* one entity only the most recent is sent, and at most one processing loop runs at a time,
\* executing its batch in queue order.
C25_QueueDiscipline ==
    /\ NoDuplicateIds
    /\ QueuedLast
    /\ ReplacedNeverSent
    /\ Len(loops) <= 1
    /\ BatchInOrder


(***************************************************************************)
(* The relationships table and saveRelationship.  A row is the pair and    *)
(* its strength; its id is a fresh uuid (relationships.id DEFAULT           *)
(* gen_random_uuid()), so the upsert, which resolves conflicts on the       *)
(* primary key only, is an insert, and UNIQUE(customer_req_id,              *)
(* technical_req_id) rejects it when the pair has a row.  The same edits    *)
(* are applied to the local store with updateRelationship.                  *)
(***************************************************************************)
saveRelationship(rows, customerReqId, technicalReqId, strength, err) ==
    LET Other(row) == ~(row.customer_req_id = customerReqId /\ row.technical_req_id = technicalReqId)
        newRow == [customer_req_id |-> customerReqId, technical_req_id |-> technicalReqId,
                   strength |-> strength]
    IN  IF strength = NONE
        THEN [rows |-> SelectSeq(rows, Other), error |-> err]
        ELSE IF \E k \in 1..Len(rows) : ~Other(rows[k])
             THEN [rows |-> rows, error |-> "duplicate key value violates unique constraint"]
             ELSE [rows |-> Append(rows, newRow), error |-> err]

\* a project without relationships, in the table and in the local store
InitRelationshipSync ==
    /\ pc = "initial"
    /\ data = initialData
    /\ priorities = Unset
    /\ normalizedPriorities = Unset
    /\ correlationInsights = Unset
    /\ targetImpacts = Unset
    /\ localCompetitorNames = Unset
    /\ debouncedCompetitorNames = Unset
    /\ args = Unset
    /\ result = Unset
    /\ requestQueue = Unset
    /\ isProcessingQueue = Unset
    /\ rendered = Unset
    /\ loops = Unset
    /\ executed = Unset
    /\ passed = Unset
    /\ replaced = Unset
    /\ relationshipRows = <<>>
    /\ error = "null"

\* one edit of a relationship of the first technical requirement: saveRelationship on the
\* table, updateRelationship on the store
EditRelationship ==
    /\ \E c \in 1..Len(CustIds), strength \in RelationshipStrength :
         LET t == 1
             saved == saveRelationship(relationshipRows, CustIds[c], TechIds[t], strength, error)
         IN  /\ relationshipRows' = saved.rows
             /\ error' = saved.error
             /\ data' = updateRelationship(data, CustIds[c], TechIds[t], strength)
             /\ args' = <<CustIds[c], TechIds[t], strength>>
    /\ pc' = "saveRelationship"
    /\ UNCHANGED <<result, priorities, normalizedPriorities, correlationInsights, targetImpacts,
                   localCompetitorNames, debouncedCompetitorNames>>
    /\ UNCHANGED <<requestQueue, isProcessingQueue, rendered, loops, executed, passed, replaced>>

NextRelationshipSync == EditRelationship

SpecRelationshipSync == InitRelationshipSync /\ [][NextRelationshipSync]_vars

RowTriples ==
    {<<relationshipRows[k].customer_req_id, relationshipRows[k].technical_req_id,
       relationshipRows[k].strength>> : k \in 1..Len(relationshipRows)}

StoreTriples ==
    {<<data.relationships[k].customerReqId, data.relationships[k].technicalReqId,
       data.relationships[k].strength>> : k \in 1..Len(data.relationships)}

\* C26: after any sequence of relationship edits the rows of the relationships table and the
\* relationships of the local store are the same set of (customerReqId, technicalReqId,
\* strength) triples, with one row per pair.
C26_RowsMatchStore ==
    /\ RowTriples = StoreTriples
    /\ \A i, j \in 1..Len(relationshipRows) :
          (/\ relationshipRows[i].customer_req_id = relationshipRows[j].customer_req_id
           /\ relationshipRows[i].technical_req_id = relationshipRows[j].technical_req_id) => i = j


(***************************************************************************)
(* The cells of QFDMatrix on the local store.  A click computes the next   *)
(* value from the data of the render and hands it to updateRelationship or *)
(* updateCorrelation.  result follows the run of clicks on one cell: the   *)
(* data before the run, the data before the last click and the number of   *)
(* clicks.                                                                  *)
(***************************************************************************)
getRelationshipStrength(d, customerReqId, technicalReqId) ==
    LET Same(r) == r.customerReqId = customerReqId /\ r.technicalReqId = technicalReqId
        k == FindIndex(d.relationships, Same)
    IN  IF k # 0 THEN d.relationships[k].strength ELSE NONE

getCorrelation(d, techReq1Id, techReq2Id) ==
    LET Same(c) == \/ (c.techReq1Id = techReq1Id /\ c.techReq2Id = techReq2Id)
                   \/ (c.techReq1Id = techReq2Id /\ c.techReq2Id = techReq1Id)
        k == FindIndex(d.technicalCorrelations, Same)
    IN  IF k # 0 THEN d.technicalCorrelations[k].correlation ELSE NONE

\* Array.prototype.indexOf, from 0, -1 when absent
indexOf(values, v) ==
    LET Is(x) == x = v
    IN  FindIndex(values, Is) - 1

\* a cycle that stops at Strong
nextStrength_NoWrap(currentStrength) ==
    LET strengthValues == <<NONE, WEAK, MEDIUM, STRONG>>
        currentIndex == indexOf(strengthValues, currentStrength)
    IN  strengthValues[(IF currentIndex + 1 < Len(strengthValues) THEN currentIndex + 1
                        ELSE currentIndex) + 1]

nextStrength(currentStrength) ==
    LET strengthValues == <<NONE, WEAK, MEDIUM, STRONG>>
        currentIndex == indexOf(strengthValues, currentStrength)
    IN  strengthValues[((currentIndex + 1) % Len(strengthValues)) + 1]

nextCorrelation(currentCorrelation) ==
    LET correlationValues == <<NONE, POSITIVE, STRONG_POSITIVE, NEGATIVE, STRONG_NEGATIVE>>
        currentIndex == indexOf(correlationValues, currentCorrelation)
    IN  correlationValues[((currentIndex + 1) % Len(correlationValues)) + 1]

\* the matrix of one customer requirement and two technical requirements, no cell set
InitMatrix ==
    /\ pc = "rendered"
    /\ data = [initialData EXCEPT
                  !.customerRequirements = <<CustomerReq(1, 5)>>,
                  !.technicalRequirements = <<TechReq(1, 3), TechReq(2, 4)>>]
    /\ args = Unset
    /\ result = [start |-> Unset, previous |-> Unset, clicks |-> 0]
    /\ priorities = Unset
    /\ normalizedPriorities = Unset
    /\ correlationInsights = Unset
    /\ targetImpacts = Unset
    /\ localCompetitorNames = Unset
    /\ debouncedCompetitorNames = Unset
    /\ HookUnset

\* the run of clicks after a click on cell: it goes on when the last click was on the same
\* cell and the run has fewer than period clicks, and starts anew otherwise
ClickRun(kind, cell, period) ==
    IF pc = kind /\ SubSeq(args, 1, 2) = cell /\ result.clicks < period
    THEN [start |-> result.start, previous |-> data, clicks |-> result.clicks + 1]
    ELSE [start |-> data, previous |-> data, clicks |-> 1]

MatrixUnchanged ==
    /\ UNCHANGED <<priorities, normalizedPriorities, correlationInsights, targetImpacts,
                   localCompetitorNames, debouncedCompetitorNames>>
    /\ HookUnchanged

\* a click on a relationship cell
cycleRelationship ==
    \E c \in 1..Len(data.customerRequirements), t \in 1..Len(data.technicalRequirements) :
        LET customerReqId == data.customerRequirements[c].id
            technicalReqId == data.technicalRequirements[t].id
            currentStrength == getRelationshipStrength(data, customerReqId, technicalReqId)
        IN  /\ data' = updateRelationship(data, customerReqId, technicalReqId,
                                          nextStrength(currentStrength))
            /\ args' = <<customerReqId, technicalReqId, nextStrength(currentStrength)>>
            /\ result' = ClickRun("cycleRelationship", <<customerReqId, technicalReqId>>, 4)
            /\ pc' = "cycleRelationship"
            /\ MatrixUnchanged

\* a click on a correlation cell, which the matrix has below the diagonal
cycleCorrelation ==
    \E i, j \in 1..Len(data.technicalRequirements) :
        /\ i > j
        /\ LET techReq1Id == data.technicalRequirements[i].id
               techReq2Id == data.technicalRequirements[j].id
               currentCorrelation == getCorrelation(data, techReq1Id, techReq2Id)
           IN  /\ data' = updateCorrelation(data, techReq1Id, techReq2Id,
                                            nextCorrelation(currentCorrelation))
               /\ args' = <<techReq1Id, techReq2Id, nextCorrelation(currentCorrelation)>>
               /\ result' = ClickRun("cycleCorrelation", <<techReq1Id, techReq2Id>>, 5)
               /\ pc' = "cycleCorrelation"
               /\ MatrixUnchanged

NextMatrix == cycleRelationship \/ cycleCorrelation

SpecMatrix == InitMatrix /\ [][NextMatrix]_vars

\* the cycle of the relationship cells: None, Weak, Medium, Strong, None
StrengthAfter(v) == CASE v = 0 -> 1 [] v = 1 -> 3 [] v = 3 -> 9 [] v = 9 -> 0

\* the cycle of the correlation cells: None, Positive, StrongPositive, Negative,
\* StrongNegative, None
CorrelationAfter(v) == CASE v = 0 -> 1 [] v = 1 -> 2 [] v = 2 -> (-1) [] v = -1 -> (-2) [] v = -2 -> 0

\* the scores and the correlation summaries of the technical requirements
ScoresAndSummaries(d) ==
    LET impacts == calculateTargetImpact(d)
    IN  [scores |-> calculateTechnicalPriorities(d),
         summaries |-> [i \in 1..Len(impacts) |-> impacts[i].correlationImpact]]

\* C27: a click moves a relationship cell along None, Weak, Medium, Strong, None and a
\* correlation cell along None, Positive, StrongPositive, Negative, StrongNegative, None; after
\* four clicks in a row on one relationship cell, or five on one correlation cell, the cell has
\* the value it had before them, and the scores and correlation summaries of all technical
\* requirements are what they were.
C27_ClickCycles ==
    /\ pc = "cycleRelationship" =>
          /\ getRelationshipStrength(data, args[1], args[2])
                = StrengthAfter(getRelationshipStrength(result.previous, args[1], args[2]))
          /\ result.clicks = 4 =>
                /\ getRelationshipStrength(data, args[1], args[2])
                      = getRelationshipStrength(result.start, args[1], args[2])
                /\ ScoresAndSummaries(data) = ScoresAndSummaries(result.start)
    /\ pc = "cycleCorrelation" =>
          /\ getCorrelation(data, args[1], args[2])
                = CorrelationAfter(getCorrelation(result.previous, args[1], args[2]))
          /\ result.clicks = 5 =>
                /\ getCorrelation(data, args[1], args[2])
                      = getCorrelation(result.start, args[1], args[2])
                /\ ScoresAndSummaries(data) = ScoresAndSummaries(result.start)

\* four clicks on a Medium cell of a matrix with another relationship and a correlation:
\* its record has moved to the end of the list, its value is Medium again
C27_Witness ==
    /\ pc = "cycleRelationship"
    /\ result.clicks = 4
    /\ Len(data.relationships) = 2
    /\ data.relationships # result.start.relationships
    /\ getRelationshipStrength(data, args[1], args[2]) = MEDIUM
    /\ Len(data.technicalCorrelations) = 1


\* C28: a technical requirement whose correlation impact is labelled Complex has mixed
\* positive and negative correlations: its positiveCount and its negativeCount are both
\* greater than 0.
C28_ComplexIsMixed ==
    pc = "rendered" =>
        \A i \in 1..Len(targetImpacts) :
            targetImpacts[i].correlationImpact.impact = "Complex" =>
                /\ targetImpacts[i].correlationImpact.positiveCount > 0
                /\ targetImpacts[i].correlationImpact.negativeCount > 0

\* C29: a technical requirement with the PRIORITY recommendation never has Implementation
\* Challenge Critical in the same analysis.
C29_PriorityNotCritical ==
    pc = "targets" =>
        \A i \in 1..Len(targetImpacts) :
            targetImpacts[i].recommendation = MsgPriority =>
                targetImpacts[i].implementationChallenge # "Critical"

(***************************************************************************)
(* calculateTargetImpact on two customer requirements of importance 5 and  *)
(* 3, a first technical requirement of any difficulty, a second one of     *)
(* difficulty 3, any relationship strengths and one correlation record     *)
(* between the two technical requirements.                                  *)
(***************************************************************************)
InitImpact ==
    /\ pc = "input"
    /\ \E diff \in DifficultyRange, st \in [1..2 -> [1..2 -> RelationshipStrength]],
          v \in CorrelationType :
            data = [EmptyData EXCEPT
                       !.customerRequirements = <<CustomerReq(1, 5), CustomerReq(2, 3)>>,
                       !.technicalRequirements = <<TechReq(1, diff), TechReq(2, 3)>>,
                       !.relationships = RelationshipRows(st),
                       !.technicalCorrelations =
                           <<[techReq1Id |-> TechIds[1], techReq2Id |-> TechIds[2],
                              correlation |-> v]>>]
    /\ priorities = Unset
    /\ normalizedPriorities = Unset
    /\ correlationInsights = Unset
    /\ targetImpacts = Unset
    /\ localCompetitorNames = Unset
    /\ debouncedCompetitorNames = Unset
    /\ HookUnset
    /\ args = Unset
    /\ result = Unset

NextImpact == CalculateTargetImpact

SpecImpact == InitImpact /\ [][NextImpact]_vars

\* C30: in every analysis of calculateTargetImpact for difficulties 1..5, the CRITICAL and
\* the FOCUS recommendation come with normalizedPriority > 50, difficulty >= 4,
\* Implementation Challenge Critical and Strategic Importance High or Critical.
C30_HardTargetsAreCritical ==
    pc = "targets" =>
        \A i \in 1..Len(targetImpacts) :
            targetImpacts[i].recommendation \in {MsgCritical, MsgFocus} =>
                /\ DGt(targetImpacts[i].normalizedPriority, IntToD(50))
                /\ targetImpacts[i].difficulty >= 4
                /\ targetImpacts[i].implementationChallenge = "Critical"
                /\ targetImpacts[i].strategicImportance \in {"High", "Critical"}

\* the first requirement, of difficulty 4 and score 27 against 45, has normalizedPriority 60
\* and a negative correlation: the CRITICAL recommendation, Critical challenge, High importance
C30_Witness ==
    /\ pc = "targets"
    /\ targetImpacts[1].recommendation = MsgCritical
    /\ targetImpacts[1].difficulty = 4
    /\ targetImpacts[1].priorityScore = 27
    /\ targetImpacts[2].priorityScore = 45
    /\ targetImpacts[1].normalizedPriority = IntToD(60)
    /\ targetImpacts[1].implementationChallenge = "Critical"
    /\ targetImpacts[1].strategicImportance = "High"


====
